---- MODULE Spec2Model ----
(***************************************************************************)
(* The KieApp reconciliation loop of kie-cloud-operator:                   *)
(*   - the status condition mutators of pkg/controller/kieapp/status,      *)
(*   - the Reconcile pass of the kieapp controller and the cluster calls   *)
(*     it makes.                                                           *)
(***************************************************************************)
EXTENDS Integers, Sequences, FiniteSets, TLC

(***************************************************************************)
(* Bounds of the model.                                                    *)
(***************************************************************************)
\* metav1.Now() is read at most this many times in a run of the status harness.
MaxClock == 7
\* reconcile requests served in a run
MaxPasses == 3
\* cluster calls that fail in a run
MaxFaults == 1
\* changes made to the cluster by others in a run
MaxExternal == 1

(***************************************************************************)
(* Values of the API types.                                                *)
(***************************************************************************)
ProvisioningConditionType == "Provisioning"
DeployedConditionType == "Deployed"
FailedConditionType == "Failed"
ConditionTypes == {ProvisioningConditionType, DeployedConditionType, FailedConditionType}

ConditionTrue == "True"
ConditionFalse == "False"

DeploymentFailedReason == "DeploymentFailed"
ConfigurationErrorReason == "ConfigurationError"
UnknownReason == "Unknown"
\* the reason of a condition built without one (Go's zero value)
NoReason == ""
Reasons == {DeploymentFailedReason, ConfigurationErrorReason, UnknownReason}

\* err.Error() of the errors handed to SetFailed
Messages == {"x", "y"}

\* getConditionIdx's result when no condition has the type
NoIdx == -1

(***************************************************************************)
(* pkg/controller/kieapp/status: the mutators as functions of the          *)
(* condition list and the clock.  A status value st is                     *)
(*   [conds |-> the list, clock |-> the last time metav1.Now() returned];  *)
(* a mutator returns st extended with ret, its return value.               *)
(***************************************************************************)
Condition(type, status, time, reason, message) ==
    [type |-> type, status |-> status, time |-> time,
     reason |-> reason, message |-> message]

\* the index of the first condition of the type, NoIdx when there is none
getConditionIdx(conds, condType) ==
    IF \E i \in 1..Len(conds) : conds[i].type = condType
    THEN CHOOSE i \in 1..Len(conds) :
            /\ conds[i].type = condType
            /\ \A j \in 1..(i - 1) : conds[j].type # condType
    ELSE NoIdx

\* a plausible slip: the list is not cleared on success
setDeployedNoClear(st, isDeployed) ==
    LET status == IF isDeployed THEN ConditionTrue ELSE ConditionFalse
        condIdx == getConditionIdx(st.conds, DeployedConditionType)
    IN  IF condIdx # NoIdx /\ st.conds[condIdx].status = status
        THEN [conds |-> st.conds, clock |-> st.clock, ret |-> FALSE]
        ELSE LET now == st.clock + 1
                 condition == Condition(DeployedConditionType, status, now, NoReason, "")
             IN  [conds |-> IF condIdx = NoIdx
                            THEN Append(st.conds, condition)
                            ELSE [st.conds EXCEPT ![condIdx] = condition],
                  clock |-> now, ret |-> TRUE]

\* a plausible slip: a changed Deployed condition is appended, not replaced
setDeployedAppends(st, isDeployed) ==
    LET status == IF isDeployed THEN ConditionTrue ELSE ConditionFalse
        condIdx == getConditionIdx(st.conds, DeployedConditionType)
    IN  IF condIdx # NoIdx /\ st.conds[condIdx].status = status
        THEN [conds |-> st.conds, clock |-> st.clock, ret |-> FALSE]
        ELSE LET now == st.clock + 1
                 condition == Condition(DeployedConditionType, status, now, NoReason, "")
                 cleared == IF isDeployed THEN << >> ELSE st.conds
             IN  [conds |-> Append(cleared, condition), clock |-> now, ret |-> TRUE]

\* a plausible slip: the early return compares nothing, every call rewrites
setDeployedAlways(st, isDeployed) ==
    LET status == IF isDeployed THEN ConditionTrue ELSE ConditionFalse
        condIdx == getConditionIdx(st.conds, DeployedConditionType)
        now == st.clock + 1
        condition == Condition(DeployedConditionType, status, now, NoReason, "")
        cleared == IF isDeployed THEN << >> ELSE st.conds
    IN  [conds |-> IF isDeployed \/ condIdx = NoIdx
                   THEN Append(cleared, condition)
                   ELSE [cleared EXCEPT ![condIdx] = condition],
         clock |-> now, ret |-> TRUE]

setDeployed(st, isDeployed) ==
    LET status == IF isDeployed THEN ConditionTrue ELSE ConditionFalse
        condIdx == getConditionIdx(st.conds, DeployedConditionType)
    IN  IF condIdx # NoIdx /\ st.conds[condIdx].status = status
        THEN [conds |-> st.conds, clock |-> st.clock, ret |-> FALSE]
        ELSE LET now == st.clock + 1
                 condition == Condition(DeployedConditionType, status, now, NoReason, "")
                 \* cr.Status.Conditions[:0] when isDeployed
                 cleared == IF isDeployed THEN << >> ELSE st.conds
             IN  [conds |-> IF isDeployed \/ condIdx = NoIdx
                            THEN Append(cleared, condition)
                            ELSE [cleared EXCEPT ![condIdx] = condition],
                  clock |-> now, ret |-> TRUE]

SetDeployed(st) == setDeployed(st, TRUE)

\* a plausible slip: the Deployed condition is appended after Provisioning
SetProvisioningSwapped(st) ==
    LET condIdx == getConditionIdx(st.conds, ProvisioningConditionType)
    IN  IF condIdx # NoIdx
        THEN [conds |-> st.conds, clock |-> st.clock, ret |-> FALSE]
        ELSE LET now == st.clock + 1
                 condition == Condition(ProvisioningConditionType, ConditionTrue, now, NoReason, "")
                 d == setDeployed([conds |-> Append(st.conds, condition), clock |-> now], FALSE)
             IN  [conds |-> d.conds, clock |-> d.clock, ret |-> TRUE]

\* a plausible slip: provisioning starts from a fresh list, dropping past errors
SetProvisioningReset(st) ==
    LET condIdx == getConditionIdx(st.conds, ProvisioningConditionType)
    IN  IF condIdx # NoIdx
        THEN [conds |-> st.conds, clock |-> st.clock, ret |-> FALSE]
        ELSE LET d == setDeployed([conds |-> << >>, clock |-> st.clock], FALSE)
                 now == d.clock + 1
                 condition == Condition(ProvisioningConditionType, ConditionTrue, now, NoReason, "")
             IN  [conds |-> Append(d.conds, condition), clock |-> now, ret |-> TRUE]

\* a plausible slip: the early return is dropped
SetProvisioningNoSkip(st) ==
    LET d == setDeployed(st, FALSE)
        now == d.clock + 1
        condition == Condition(ProvisioningConditionType, ConditionTrue, now, NoReason, "")
    IN  [conds |-> Append(d.conds, condition), clock |-> now, ret |-> TRUE]

SetProvisioning(st) ==
    LET condIdx == getConditionIdx(st.conds, ProvisioningConditionType)
    IN  IF condIdx # NoIdx
        THEN [conds |-> st.conds, clock |-> st.clock, ret |-> FALSE]
        ELSE LET d == setDeployed(st, FALSE)
                 now == d.clock + 1
                 condition == Condition(ProvisioningConditionType, ConditionTrue, now, NoReason, "")
             IN  [conds |-> Append(d.conds, condition), clock |-> now, ret |-> TRUE]

\* a plausible slip: the Failed condition is appended, never replaced
SetFailedAppend(st, reason, message) ==
    LET d == setDeployed(st, FALSE)
        now == d.clock + 1
        condition == Condition(FailedConditionType, ConditionTrue, now, reason, message)
    IN  [conds |-> Append(d.conds, condition), clock |-> now, ret |-> TRUE]

\* a plausible slip: the Deployed condition is left as it is on a failure
SetFailedKeepsDeployed(st, reason, message) ==
    LET now == st.clock + 1
        condition == Condition(FailedConditionType, ConditionTrue, now, reason, message)
        condIdx == getConditionIdx(st.conds, FailedConditionType)
    IN  [conds |-> IF condIdx = NoIdx
                   THEN Append(st.conds, condition)
                   ELSE [st.conds EXCEPT ![condIdx] = condition],
         clock |-> now, ret |-> TRUE]

\* SetFailed returns nothing; ret is TRUE to keep the shape of the result
SetFailed(st, reason, message) ==
    LET d == setDeployed(st, FALSE)
        now == d.clock + 1
        condition == Condition(FailedConditionType, ConditionTrue, now, reason, message)
        condIdx == getConditionIdx(d.conds, FailedConditionType)
    IN  [conds |-> IF condIdx = NoIdx
                   THEN Append(d.conds, condition)
                   ELSE [d.conds EXCEPT ![condIdx] = condition],
         clock |-> now, ret |-> TRUE]

\* how many conditions of the list have the type
CountType(conds, condType) ==
    Cardinality({i \in 1..Len(conds) : conds[i].type = condType})

(***************************************************************************)
(* The cluster the controller works on.                                    *)
(*                                                                         *)
(* An object of the cluster is identified by its key [kind, name] (one     *)
(* namespace, the instance's) and carries                                  *)
(*   owners  - the UIDs of its owner references,                           *)
(*   content - its labels, annotations and spec, as one value,             *)
(*   data    - a Secret's payload, payload key -> bytes,                   *)
(*   vols    - the Secret names a DeploymentConfig's volumes mount,        *)
(*   host    - a Route's spec.host, "" until the router assigns one.       *)
(* The object store is a function from the keys that exist.                *)
(***************************************************************************)
\* the UID of the reconciled KieApp
InstanceUID == "uid-a"
\* the UID of a KieApp struct that no Get has filled
NoUID == ""

KindDC == "DeploymentConfig"
KindPVC == "PersistentVolumeClaim"
KindSA == "ServiceAccount"
KindSecret == "Secret"
KindRole == "Role"
KindRoleBinding == "RoleBinding"
KindService == "Service"
KindStatefulSet == "StatefulSet"
KindRoute == "Route"
KindImageStream == "ImageStream"
KindBuildConfig == "BuildConfig"

\* the kinds getDeployedResources lists with an owner filter
ListedKinds == {KindDC, KindPVC, KindSA, KindRole, KindRoleBinding, KindService,
                KindStatefulSet, KindRoute, KindImageStream, KindBuildConfig}
Kinds == ListedKinds \cup {KindSecret}

Key(kind, name) == [kind |-> kind, name |-> name]

NoData == << >>
Obj(owners, content, data, vols, host) ==
    [owners |-> owners, content |-> content, data |-> data, vols |-> vols, host |-> host]

\* a resource as the controller holds it: its key and its value
Res(key, val) == [key |-> key, val |-> val]

\* the zero value of a Go struct of the kind: what a failed Get leaves behind
ZeroRes(kind) == Res(Key(kind, ""), Obj({}, 0, NoData, {}, ""))

Put(store, key, val) == [k \in DOMAIN store \cup {key} |-> IF k = key THEN val ELSE store[k]]
Drop(store, key) == [k \in DOMAIN store \ {key} |-> store[k]]

(***************************************************************************)
(* The KieApp.  Its spec is what the user wrote plus what the defaults     *)
(* fill in:                                                                *)
(*   valid     - the template compiler accepts it,                         *)
(*   defaulted - the defaults have been written into it,                   *)
(*   variant   - which environment it asks for,                            *)
(*   registry  - Spec.ImageRegistry is set (a custom registry).            *)
(***************************************************************************)
KieSpec(valid, defaulted, variant, registry) ==
    [valid |-> valid, defaulted |-> defaulted, variant |-> variant, registry |-> registry]

KieStatus(conds, deployments, consoleHost) ==
    [conds |-> conds, deployments |-> deployments, consoleHost |-> consoleHost]
EmptyStatus == KieStatus(<< >>, {}, "")

KieApp(uid, rv, spec, status) ==
    [uid |-> uid, rv |-> rv, spec |-> spec, status |-> status]
\* instance := &api.KieApp{}
EmptyKieApp == KieApp(NoUID, 0, KieSpec(FALSE, FALSE, "a", FALSE), EmptyStatus)

(***************************************************************************)
(* The template compiler (pkg/controller/kieapp/defaults), an opaque       *)
(* function of the spec: GetEnvironment writes the defaults into the spec  *)
(* and returns the environment, or an error for a spec it rejects.         *)
(* The environment here is one component, the console, with its            *)
(* DeploymentConfig (mounting the keystore Secret, triggered by an image   *)
(* tag) and its routes, and a second DeploymentConfig: the smart router in *)
(* variant "a", the process migration service in variant "b".  Variant "b" *)
(* also adds a second route, changes the console's DeploymentConfig and    *)
(* scales the server to zero.                                              *)
(***************************************************************************)
ApplicationName == "app"
KeystoreSecretName == "app-businesscentral"
DCName == "app-console"
RouterDCName == "app-smartrouter"
MigrationDCName == "app-process-migration"
ServerCMName == "app-kieserver"

Environment(variant) ==
    [routes |-> IF variant = "a" THEN << "r1" >> ELSE << "r1", "r2" >>,
     tlsRoute |-> "r1",
     dcContent |-> IF variant = "a" THEN 1 ELSE 2,
     extraDC |-> IF variant = "a" THEN RouterDCName ELSE MigrationDCName,
     serverReplicas |-> IF variant = "a" THEN 1 ELSE 0]

GetEnvironment(cr) ==
    IF cr.spec.valid
    THEN [err |-> FALSE,
          cr |-> [cr EXCEPT !.spec.defaulted = TRUE],
          env |-> Environment(cr.spec.variant)]
    ELSE [err |-> TRUE, cr |-> cr, env |-> Environment(cr.spec.variant)]

\* the routes of the environment's objects, in order
getRequestedRoutes(env) ==
    [i \in 1..Len(env.routes) |->
        Res(Key(KindRoute, env.routes[i]), Obj({}, 1, NoData, {}, ""))]

\* a plausible slip: every requested route is taken as missing
getMissingRoutesAll(requestedRoutes, deployedRoutes) == requestedRoutes

\* the requested routes that loadRoutes did not find
getMissingRoutes(requestedRoutes, deployedRoutes) ==
    SelectSeq(requestedRoutes, LAMBDA r : r.key.name \notin DOMAIN deployedRoutes)

\* the host the cluster gave the route, "" when the map does not hold the route
GetRouteHost(routeName, routeMap) ==
    IF routeName \in DOMAIN routeMap THEN routeMap[routeName].host ELSE ""

(***************************************************************************)
(* Calls that write to the cluster, as the pass issues them.               *)
(***************************************************************************)
Call(op, kind, name) == [op |-> op, kind |-> kind, name |-> name]

(***************************************************************************)
(* Image stream tags.  One image reference is modelled; tags is the set of *)
(* namespaces in which its ImageStreamTag exists.  probeErrs are the       *)
(* namespaces whose Get fails in this call, createErr a failing Create.    *)
(***************************************************************************)
InstanceNamespace == "ns"
FallbackNamespace == "openshift"
ImageRef == "rhpam-businesscentral:7"

\* a plausible slip: a Get that fails does not say the tag is missing
checkImageStreamTagUnlessError(tags, namespace, probeErrs) ==
    namespace \in tags \/ namespace \in probeErrs

\* any error of the Get reads as "does not exist"
checkImageStreamTag(tags, namespace, probeErrs) ==
    namespace \in tags /\ namespace \notin probeErrs

\* a plausible slip: the tag is created in the namespace of the shared images
createLocalImageTagShared(tags, createErr) ==
    [tags |-> IF createErr THEN tags ELSE tags \cup {FallbackNamespace},
     err |-> createErr,
     calls |-> << Call("create", "ImageStreamTag", ImageRef) >>]

\* a plausible slip: every error of the Create is returned
createLocalImageTagStrict(tags, createErr) ==
    LET answer == IF createErr THEN "error"
                  ELSE IF InstanceNamespace \in tags THEN "alreadyExists" ELSE "created"
    IN  [tags |-> IF answer = "created" THEN tags \cup {InstanceNamespace} ELSE tags,
         err |-> answer # "created",
         calls |-> << Call("create", "ImageStreamTag", ImageRef) >>]

\* Create in the instance's namespace.  The cluster answers with an error
\* (createErr), with AlreadyExists when the namespace holds the tag, or it
\* creates the tag; AlreadyExists is no error of createLocalImageTag
createLocalImageTag(tags, createErr) ==
    LET answer == IF createErr THEN "error"
                  ELSE IF InstanceNamespace \in tags THEN "alreadyExists" ELSE "created"
    IN  [tags |-> IF answer = "created" THEN tags \cup {InstanceNamespace} ELSE tags,
         err |-> answer \notin {"created", "alreadyExists"},
         calls |-> << Call("create", "ImageStreamTag", ImageRef) >>]

\* a plausible slip: the instance's namespace is looked at first in any case
ensureImageStreamOwnFirst(tags, namespace, cr, probeErrs, createErr) ==
    LET found(ns) == checkImageStreamTag(tags, ns, probeErrs)
        c == createLocalImageTag(tags, createErr)
        returns(ns, probes) ==
            [ns |-> ns, err |-> FALSE, tags |-> tags, calls |-> << >>, probes |-> probes]
        created(probes) ==
            [ns |-> IF c.err THEN namespace ELSE InstanceNamespace,
             err |-> c.err, tags |-> c.tags, calls |-> c.calls, probes |-> probes]
    IN  IF found(InstanceNamespace)
        THEN returns(InstanceNamespace, << InstanceNamespace >>)
        ELSE IF cr.spec.registry THEN created(<< InstanceNamespace >>)
        ELSE IF found(namespace)
        THEN returns(namespace, << InstanceNamespace, namespace >>)
        ELSE created(<< InstanceNamespace, namespace >>)

\* the namespace that holds the tag, the tags after the call, the namespaces
\* probed (in order) and the write calls issued; on an error of the Create
\* the namespace handed in is returned with it
ensureImageStream(tags, namespace, cr, probeErrs, createErr) ==
    LET found(ns) == checkImageStreamTag(tags, ns, probeErrs)
        c == createLocalImageTag(tags, createErr)
        returns(ns, probes) ==
            [ns |-> ns, err |-> FALSE, tags |-> tags, calls |-> << >>, probes |-> probes]
        created(probes) ==
            [ns |-> IF c.err THEN namespace ELSE InstanceNamespace,
             err |-> c.err, tags |-> c.tags, calls |-> c.calls, probes |-> probes]
    IN  IF cr.spec.registry
        THEN IF found(InstanceNamespace)
             THEN returns(InstanceNamespace, << InstanceNamespace >>)
             ELSE created(<< InstanceNamespace >>)
        ELSE IF found(namespace)
        THEN returns(namespace, << namespace >>)
        ELSE IF found(InstanceNamespace)
        THEN returns(InstanceNamespace, << namespace, InstanceNamespace >>)
        ELSE created(<< namespace, InstanceNamespace >>)

(***************************************************************************)
(* Hosts, keystores and the requested resources.                           *)
(***************************************************************************)
\* the console part of setEnvironmentProperties: the host of the first TLS
\* route becomes the keystore's common name and the console URL; without a
\* host, the application name.  keystore is what GenerateKeystore returns.
setEnvironmentProperties(cr, env, routeMap, keystore) ==
    LET host == GetRouteHost(env.tlsRoute, routeMap)
        consoleCN == IF host = "" THEN ApplicationName ELSE host
        consoleHost == IF host = "" THEN "http://" \o consoleCN ELSE "https://" \o consoleCN
    IN  [cr |-> [cr EXCEPT !.status.consoleHost = consoleHost],
         env |-> [routes |-> env.routes, tlsRoute |-> env.tlsRoute,
                  dcContent |-> env.dcContent, extraDC |-> env.extraDC,
                  serverReplicas |-> env.serverReplicas,
                  secrets |-> << Res(Key(KindSecret, KeystoreSecretName),
                                    Obj({}, 1, ("keystore.jks" :> keystore), {}, "")) >>]]

\* getCustomObjectResources for the console: Secrets, DeploymentConfigs (the
\* image trigger's namespace set by ensureImageStream), Routes
getKubernetesResources(env, triggerNamespace) ==
    env.secrets
    \o << Res(Key(KindDC, DCName),
              Obj({}, << env.dcContent, triggerNamespace >>, NoData,
                  {KeystoreSecretName}, "")),
          \* the second DeploymentConfig has no image change trigger
          Res(Key(KindDC, env.extraDC), Obj({}, << 1, "" >>, NoData, {}, "")) >>
    \o getRequestedRoutes(env)

(***************************************************************************)
(* The keystores of all components.  A component (api.CustomObject) is     *)
(* [omit, keystoreSecret, secrets]: whether the environment leaves it out, *)
(* the name of the keystore Secret the KieApp supplies for it ("" for      *)
(* none), and the names of its Secrets; env is [console, servers,          *)
(* smartRouter].                                                           *)
(***************************************************************************)
Component(omit, keystoreSecret) ==
    [omit |-> omit, keystoreSecret |-> keystoreSecret, secrets |-> << >>]

\* the Secret of generateKeystoreSecret is appended unless one is supplied
generateKeystoreSecret(component, secretName) ==
    IF component.keystoreSecret = ""
    THEN [component EXCEPT !.secrets = Append(@, secretName)]
    ELSE component

\* the loop over env.Servers from its i-th turn on: the first omitted server
\* ends the loop (break)
RECURSIVE serverKeystores(_, _)
serverKeystores(servers, i) ==
    IF i > Len(servers) \/ servers[i].omit THEN servers
    ELSE serverKeystores(
            [servers EXCEPT ![i] = generateKeystoreSecret(@, << "kieserver", i >>)], i + 1)

\* the keystore part of setEnvironmentProperties
setEnvironmentKeystores(env) ==
    [console |-> IF env.console.omit THEN env.console
                 ELSE generateKeystoreSecret(env.console, << "businesscentral" >>),
     servers |-> serverKeystores(env.servers, 1),
     smartRouter |-> IF env.smartRouter.omit THEN env.smartRouter
                     ELSE generateKeystoreSecret(env.smartRouter, << "smartrouter" >>)]

getCustomObjects(env) == << env.console >> \o env.servers \o << env.smartRouter >>

filterOmittedObjects(objects) == SelectSeq(objects, LAMBDA o : ~o.omit)

(***************************************************************************)
(* getDeployedResources: per kind, the objects of the namespace that carry *)
(* the instance's UID among their owner references; Secrets are not listed *)
(* but fetched by the names the owned DeploymentConfigs mount.             *)
(***************************************************************************)
OwnedOfKind(objects, kind, uid) ==
    {Res(k, objects[k]) : k \in {x \in DOMAIN objects : x.kind = kind /\ uid \in objects[x].owners}}

\* the Secret a Get by name fills: the stored one, or the zero value it started as
GetSecret(objects, name) ==
    IF Key(KindSecret, name) \in DOMAIN objects
    THEN Res(Key(KindSecret, name), objects[Key(KindSecret, name)])
    ELSE ZeroRes(KindSecret)

getDeployedResources(objects, uid) ==
    [kind \in Kinds |->
        IF kind = KindSecret
        THEN {GetSecret(objects, name) :
                name \in UNION {dc.val.vols : dc \in OwnedOfKind(objects, KindDC, uid)}}
        ELSE OwnedOfKind(objects, kind, uid)]

\* olm.GetDeploymentConfigStatus, as the names of the deployed DeploymentConfigs
setDeploymentStatus(cr, dcs) ==
    [cr EXCEPT !.status.deployments = {r.key.name : r \in dcs}]

(***************************************************************************)
(* compare.MapComparator (operator-utils): per kind, the requested         *)
(* resources with no deployed namesake are Added, the deployed ones with   *)
(* no requested namesake Removed, and the requested ones whose deployed    *)
(* namesake differs under the kind's equality are Updated.                 *)
(***************************************************************************)
\* a plausible slip: the payloads are compared as they are
MaskDataKept(data) == data

\* a plausible slip: the payload is dropped whole, keys and values
MaskDataDropped(data) == NoData

\* the equality of ignoreSecretDataValues: payload values blanked on both sides
MaskData(data) == [k \in DOMAIN data |-> 0]

\* a plausible slip: the host the router gave a route is compared too
EqualResourcesWithHost(kind, deployed, requested) ==
    /\ deployed.content = requested.content
    /\ deployed.vols = requested.vols
    /\ deployed.host = requested.host
    /\ IF kind = KindSecret
       THEN MaskData(deployed.data) = MaskData(requested.data)
       ELSE deployed.data = requested.data

EqualResources(kind, deployed, requested) ==
    /\ deployed.content = requested.content
    /\ deployed.vols = requested.vols
    /\ IF kind = KindSecret
       THEN MaskData(deployed.data) = MaskData(requested.data)
       ELSE deployed.data = requested.data

ResourceMap(resources) ==
    [kind \in Kinds |-> {resources[i] : i \in {j \in 1..Len(resources) : resources[j].key.kind = kind}}]

Names(set) == {r.key.name : r \in set}

\* a plausible slip: a requested resource with a deployed namesake is Updated
\* whether or not the two are equal
CompareAllCommon(deployed, requested) ==
    [kind \in Kinds |->
        [Added |-> {r \in requested[kind] : r.key.name \notin Names(deployed[kind])},
         Removed |-> {d \in deployed[kind] : d.key.name \notin Names(requested[kind])},
         Updated |-> {r \in requested[kind] : r.key.name \in Names(deployed[kind])}]]

Compare(deployed, requested) ==
    [kind \in Kinds |->
        [Added |-> {r \in requested[kind] : r.key.name \notin Names(deployed[kind])},
         Removed |-> {d \in deployed[kind] : d.key.name \notin Names(requested[kind])},
         Updated |-> {r \in requested[kind] :
                        \E d \in deployed[kind] :
                            /\ d.key.name = r.key.name
                            /\ ~EqualResources(kind, d.val, r.val)}]]

HasChanges(delta) == delta.Added # {} \/ delta.Updated # {} \/ delta.Removed # {}

(***************************************************************************)
(* write.AddResources, UpdateResources, RemoveResources (operator-utils):  *)
(* the resources are written one by one and the first error ends the       *)
(* call.  failAt is the position of a call the cluster fails (0: none).    *)
(* Each returns the object store, whether something was written, whether   *)
(* an error ended it, and the calls issued.                                *)
(***************************************************************************)
RECURSIVE SetToSeq(_)
SetToSeq(S) ==
    IF S = {} THEN << >>
    ELSE LET x == CHOOSE y \in S : TRUE IN << x >> \o SetToSeq(S \ {x})

RECURSIVE AddResources(_, _, _, _)
AddResources(objects, uid, resources, failAt) ==
    IF resources = << >>
    THEN [objects |-> objects, done |-> FALSE, err |-> FALSE, calls |-> << >>]
    ELSE LET r == Head(resources)
             call == Call("create", r.key.kind, r.key.name)
         IN  IF failAt = 1 \/ r.key \in DOMAIN objects
             THEN [objects |-> objects, done |-> FALSE, err |-> TRUE, calls |-> << call >>]
             ELSE LET rest == AddResources(Put(objects, r.key, [r.val EXCEPT !.owners = {uid}]),
                                           uid, Tail(resources), failAt - 1)
                  IN  [objects |-> rest.objects, done |-> TRUE, err |-> rest.err,
                       calls |-> << call >> \o rest.calls]

RECURSIVE UpdateResources(_, _, _, _)
UpdateResources(objects, uid, resources, failAt) ==
    IF resources = << >>
    THEN [objects |-> objects, done |-> FALSE, err |-> FALSE, calls |-> << >>]
    ELSE LET r == Head(resources)
             call == Call("update", r.key.kind, r.key.name)
         IN  IF failAt = 1 \/ r.key \notin DOMAIN objects
             THEN [objects |-> objects, done |-> FALSE, err |-> TRUE, calls |-> << call >>]
             ELSE LET new == [r.val EXCEPT !.owners = {uid}, !.host = objects[r.key].host]
                      rest == UpdateResources(Put(objects, r.key, new), uid,
                                              Tail(resources), failAt - 1)
                  IN  [objects |-> rest.objects, done |-> TRUE, err |-> rest.err,
                       calls |-> << call >> \o rest.calls]

RECURSIVE RemoveResources(_, _, _)
RemoveResources(objects, resources, failAt) ==
    IF resources = << >>
    THEN [objects |-> objects, done |-> FALSE, err |-> FALSE, calls |-> << >>]
    ELSE LET r == Head(resources)
             call == Call("delete", r.key.kind, r.key.name)
         IN  IF failAt = 1 \/ r.key \notin DOMAIN objects
             THEN [objects |-> objects, done |-> FALSE, err |-> TRUE, calls |-> << call >>]
             ELSE LET rest == RemoveResources(Drop(objects, r.key), Tail(resources), failAt - 1)
                  IN  [objects |-> rest.objects, done |-> TRUE, err |-> rest.err,
                       calls |-> << call >> \o rest.calls]

(***************************************************************************)
(* The KieApp in the API server: [exists, app].  Update is refused when    *)
(* the object is gone or its resourceVersion is not the stored one.        *)
(***************************************************************************)
Stored(exists, app) == [exists |-> exists, app |-> app]
NotStored == Stored(FALSE, EmptyKieApp)

\* Service.Update, then Result{Requeue: true}; an error is returned as it is
UpdateObj(stored, obj, fault) ==
    LET ok == /\ ~fault
              /\ stored.exists
              /\ obj.uid = stored.app.uid
              /\ obj.rv = stored.app.rv
    IN  [stored |-> IF ok THEN Stored(TRUE, [obj EXCEPT !.rv = obj.rv + 1]) ELSE stored,
         err |-> ~ok,
         calls |-> << Call("update", "KieApp", ApplicationName) >>]

\* status.SetFailed, then UpdateObj whose error is only logged
setFailedStatus(stored, instance, now, reason, message, fault) ==
    LET f == SetFailed([conds |-> instance.status.conds, clock |-> now], reason, message)
        cr == [instance EXCEPT !.status.conds = f.conds]
        u == UpdateObj(stored, cr, fault)
    IN  [stored |-> u.stored, cr |-> cr, clock |-> f.clock, calls |-> u.calls]

\* reflect.DeepEqual of the specs (the per-server loop repeats it)
hasSpecChanges(instance, cached) == instance.spec # cached.spec

hasStatusChanges(instance, cached) == instance.status # cached.status

(***************************************************************************)
(* Config maps.  A name is the sequence of its "-"-separated parts; a      *)
(* stored config map is [data, binary, owners, label], owners the set of   *)
(* its owner references [kind, name] and label its KieServerCMLabel.       *)
(***************************************************************************)
CM(data, binary, owners, label) ==
    [data |-> data, binary |-> binary, owners |-> owners, label |-> label]

OperatorVersion == "v2"
\* defaults.ConfigMapsFromFile: the config maps generated from the operator's files
GeneratedConfigMaps ==
    << [name |-> << "kieconfigs" >>, version |-> OperatorVersion,
        cm |-> CM(0, 0, {[kind |-> "Deployment", name |-> "operator"]}, "")],
       [name |-> << "kieconfigs", "testdata" >>, version |-> OperatorVersion,
        cm |-> CM(0, 0, {[kind |-> "Deployment", name |-> "operator"]}, "")] >>

IsTestDir(name) == Len(name) > 1 /\ name[2] = "testdata"

BackupName(name, version) ==
    IF version = "" THEN name \o << "bak" >> ELSE name \o << version, "bak" >>

CMCall(op, name) == Call(op, "ConfigMap", name)

\* createConfigMap: Get; NotFound creates the object (createObj), another
\* error is logged; the existing object is returned only when the Get found it
createConfigMap(cms, name, cm, getErrs, writeErrs) ==
    IF name \in getErrs
    THEN [cms |-> cms, exists |-> FALSE, calls |-> << >>]
    ELSE IF name \in DOMAIN cms
         THEN [cms |-> cms, exists |-> TRUE, calls |-> << >>]
         ELSE [cms |-> IF name \in writeErrs THEN cms ELSE Put(cms, name, cm),
               exists |-> FALSE,
               calls |-> << CMCall("create", name) >>]

\* a plausible slip: a live config map that differs from the generated one
\* is brought up to date once its backup is taken
ReconcileOneUpdatesLive(cms, gen, getErrs, writeErrs) ==
    IF IsTestDir(gen.name) THEN [cms |-> cms, calls |-> << >>]
    ELSE LET c == createConfigMap(cms, gen.name, gen.cm, getErrs, writeErrs)
         IN  IF ~c.exists THEN [cms |-> c.cms, calls |-> c.calls]
             ELSE LET existingCM == cms[gen.name]
                  IN  IF gen.cm.data = existingCM.data /\ gen.cm.binary = existingCM.binary
                      THEN [cms |-> cms, calls |-> << >>]
                      ELSE LET bak == BackupName(gen.name, gen.version)
                               copy == [existingCM EXCEPT !.owners = {}]
                               b == createConfigMap(cms, bak, copy, getErrs, writeErrs)
                               kept == IF b.exists /\ bak \notin writeErrs
                                       THEN Put(cms, bak, [cms[bak] EXCEPT !.data = copy.data])
                                       ELSE b.cms
                           IN  [cms |-> Put(kept, gen.name, gen.cm),
                                calls |-> (IF b.exists THEN << CMCall("update", bak) >>
                                           ELSE b.calls)
                                          \o << CMCall("update", gen.name) >>]

\* the body of CreateConfigMaps' loop for one generated config map
ReconcileOne(cms, gen, getErrs, writeErrs) ==
    IF IsTestDir(gen.name) THEN [cms |-> cms, calls |-> << >>]
    ELSE LET c == createConfigMap(cms, gen.name, gen.cm, getErrs, writeErrs)
         IN  IF ~c.exists THEN [cms |-> c.cms, calls |-> c.calls]
             ELSE LET existingCM == cms[gen.name]
                  IN  IF gen.cm.data = existingCM.data /\ gen.cm.binary = existingCM.binary
                      THEN [cms |-> cms, calls |-> << >>]
                      ELSE LET bak == BackupName(gen.name, gen.version)
                               \* existingCM renamed, ResourceVersion and OwnerReferences cleared
                               copy == [existingCM EXCEPT !.owners = {}]
                               b == createConfigMap(cms, bak, copy, getErrs, writeErrs)
                           IN  IF ~b.exists THEN [cms |-> b.cms, calls |-> b.calls]
                               ELSE IF copy.data = cms[bak].data /\ copy.binary = cms[bak].binary
                                    THEN [cms |-> cms, calls |-> << >>]
                                    \* existingBackupCM.Data = existingCM.Data; UpdateObj
                                    ELSE [cms |-> IF bak \in writeErrs THEN cms
                                                  ELSE Put(cms, bak, [cms[bak] EXCEPT
                                                           !.data = copy.data]),
                                          calls |-> << CMCall("update", bak) >>]

RECURSIVE CreateConfigMaps(_, _, _, _)
CreateConfigMaps(cms, generated, getErrs, writeErrs) ==
    IF generated = << >> THEN [cms |-> cms, calls |-> << >>]
    ELSE LET one == ReconcileOne(cms, Head(generated), getErrs, writeErrs)
             rest == CreateConfigMaps(one.cms, Tail(generated), getErrs, writeErrs)
         IN  [cms |-> rest.cms, calls |-> one.calls \o rest.calls]

(***************************************************************************)
(* checkKieServerConfigMap: the config maps owned by a DeploymentConfig    *)
(* that the environment does not run (replicas 0 in serverDcList, which    *)
(* also answers 0 for a name it does not hold) and whose label is neither  *)
(* empty nor DETACHED are relabelled DETACHED, once the DeploymentConfig   *)
(* reports no available replica.  available answers the                    *)
(* Status.AvailableReplicas of a DeploymentConfig by name (0 as well when  *)
(* the Get fails: dcObj stays the zero value).                             *)
(***************************************************************************)
DetachedLabel == "DETACHED"
UsedLabel == "USED"

ServerReplicas(env, dcName) == IF dcName = ServerCMName THEN env.serverReplicas ELSE 0

\* the AvailableReplicas the Get of the DeploymentConfig leaves in dcObj
AvailableReplicas(dcName, serverAvail) == IF dcName = ServerCMName THEN serverAvail ELSE 0

Orphans(cms, env, serverAvail) ==
    {o.name : o \in UNION {
        {r \in cms[n].owners :
            /\ ServerReplicas(env, r.name) = 0
            /\ r.kind = KindDC
            /\ cms[n].label # ""
            /\ cms[n].label # DetachedLabel
            /\ AvailableReplicas(r.name, serverAvail) = 0} : n \in DOMAIN cms}}

\* the config map fetched by the owner's name is relabelled and updated (a Get
\* that does not find it is left out)
checkKieServerConfigMap(cms, env, serverAvail, listErr, writeErr) ==
    IF listErr THEN [cms |-> cms, calls |-> << >>]
    ELSE LET targets == {<< n >> : n \in Orphans(cms, env, serverAvail)} \cap DOMAIN cms
         IN  [cms |-> [n \in DOMAIN cms |->
                        IF n \in targets /\ ~writeErr
                        THEN [cms[n] EXCEPT !.label = DetachedLabel] ELSE cms[n]],
              calls |-> [i \in 1..Cardinality(targets) |->
                            CMCall("update", SetToSeq(targets)[i])]]

(***************************************************************************)
(* State.                                                                  *)
(***************************************************************************)
VARIABLES
    \* the status tests
    conditions,      \* cr.Status.Conditions of the KieApp under test
    lastCall,        \* the last mutator call: name, arguments, result, the list before it
    clock,           \* the last value metav1.Now() returned
    \* the cluster
    stored,          \* the KieApp in the API server
    cache,           \* the KieApp in the controller's informer cache
    objects,         \* the namespace's objects of the reconciled kinds
    tags,            \* the namespaces that hold the image stream tag
    configMaps,      \* the config maps, by name
    serverAvailable, \* Status.AvailableReplicas of the server's DeploymentConfig
    useEmbedded,     \* defaults.UseEmbeddedFiles: the operator does not run in a pod
    \* what the last pass did, if nothing happened since
    instance,        \* the KieApp it held in memory when it returned
    before,          \* the conditions of the KieApp as it read it
    writes,          \* its write calls, in order
    events,          \* what it met on its way
    result,          \* what it returned
    hist,            \* the pass before it
    \* budgets of the bounded model
    passes, faults, externals,
    \* the comparator and the inventory called on their own
    probe            \* the function, its arguments, its result once it was called

statusVars == << conditions, clock, lastCall >>
clusterVars == << stored, cache, objects, tags, configMaps, serverAvailable, useEmbedded >>
histVars == << instance, before, writes, events, result, hist >>
budgetVars == << passes, faults, externals >>
reconcileVars == << clusterVars, histVars, budgetVars >>
vars == << statusVars, reconcileVars, probe >>

NoCall == [op |-> "none", ret |-> FALSE, reason |-> NoReason, message |-> "",
           before |-> << >>, run |-> 0]

NoStore == << >>

\* prevResult: what the pass before the last returned; quiet: nothing
\* happened between the two; clean, prevClean: no call of the last pass, of
\* the one before, failed
NoHist == [prevResult |-> "none", quiet |-> FALSE, clean |-> FALSE, prevClean |-> FALSE]

\* the specs a user writes: no defaults in them yet
UserSpecs ==
    {KieSpec(TRUE, FALSE, "a", FALSE), KieSpec(TRUE, FALSE, "b", FALSE),
     KieSpec(FALSE, FALSE, "a", FALSE), KieSpec(TRUE, FALSE, "a", TRUE)}

\* no function is called on its own
NoProbe == [fn |-> "none", args |-> << >>, called |-> FALSE, out |-> << >>]

ReconcileIdle ==
    /\ instance = EmptyKieApp
    /\ before = << >>
    /\ writes = << >>
    /\ events = {}
    /\ result = "none"
    /\ hist = NoHist
    /\ passes = 0
    /\ faults = 0
    /\ externals = 0

(***************************************************************************)
(* The status tests: a KieApp with an empty condition list (cr :=          *)
(* &v1.KieApp{}) on which the three mutators are called in any order.      *)
(***************************************************************************)
StatusInit ==
    /\ conditions = << >>
    /\ clock = 0
    /\ lastCall = NoCall
    /\ stored = NotStored
    /\ cache = NotStored
    /\ objects = NoStore
    /\ tags = {}
    /\ configMaps = NoStore
    /\ serverAvailable = 0
    /\ useEmbedded = TRUE
    /\ ReconcileIdle
    /\ probe = NoProbe

\* room on the clock for the two readings a mutator can make
ClockHasRoom == clock + 2 <= MaxClock

CallSetProvisioning ==
    /\ ClockHasRoom
    /\ LET r == SetProvisioning([conds |-> conditions, clock |-> clock])
       IN  /\ conditions' = r.conds
           /\ clock' = r.clock
           /\ lastCall' = [op |-> "SetProvisioning", ret |-> r.ret, reason |-> NoReason,
                           message |-> "", before |-> conditions, run |-> 0]
    /\ UNCHANGED << reconcileVars, probe >>

CallSetDeployed ==
    /\ ClockHasRoom
    /\ LET r == SetDeployed([conds |-> conditions, clock |-> clock])
       IN  /\ conditions' = r.conds
           /\ clock' = r.clock
           /\ lastCall' = [op |-> "SetDeployed", ret |-> r.ret, reason |-> NoReason,
                           message |-> "", before |-> conditions, run |-> 0]
    /\ UNCHANGED << reconcileVars, probe >>

CallSetFailed ==
    /\ ClockHasRoom
    /\ \E reason \in Reasons, message \in Messages :
         LET r == SetFailed([conds |-> conditions, clock |-> clock], reason, message)
         IN  /\ conditions' = r.conds
             /\ clock' = r.clock
             /\ lastCall' = [op |-> "SetFailed", ret |-> r.ret, reason |-> reason,
                             message |-> message, before |-> conditions,
                             run |-> IF lastCall.op = "SetFailed"
                                     THEN lastCall.run + 1 ELSE 1]
    /\ UNCHANGED << reconcileVars, probe >>

StatusNext ==
    \/ CallSetProvisioning
    \/ CallSetDeployed
    \/ CallSetFailed

StatusSpec == StatusInit /\ [][StatusNext]_vars

(***************************************************************************)
(* The Reconcile pass.  Its statements are operators on the record s of    *)
(* what the pass has in hand: the cluster as its calls have left it, its   *)
(* locals, the calls and events so far, and result, "running" until a      *)
(* return statement is met.  plan names the calls the cluster fails in     *)
(* this pass; hit collects those of them the pass has made.                *)
(***************************************************************************)
KeystoreBytes == {1, 2}

LiveName == GeneratedConfigMaps[1].name
BakName == BackupName(LiveName, GeneratedConfigMaps[1].version)
\* the config map an older operator left in the namespace
OldConfigMap == CM(1, 0, {[kind |-> "Deployment", name |-> "operator"]}, "")
\* the config map a running KIE server keeps, owned by its DeploymentConfig
ServerConfigMap == CM(0, 0, {[kind |-> KindDC, name |-> ServerCMName]}, UsedLabel)

\* a namespace the operator has not deployed to yet
FreshNamespace ==
    /\ stored \in {NotStored}
                  \cup {Stored(TRUE, KieApp(InstanceUID, 1, s, EmptyStatus)) : s \in UserSpecs}
    /\ cache = stored
    /\ objects = NoStore
    /\ tags \in {{}, {FallbackNamespace}}
    /\ serverAvailable \in {0, 1}
    /\ \E operatorMaps \in {NoStore, (LiveName :> OldConfigMap)} :
         configMaps = IF serverAvailable = 1
                      THEN Put(operatorMaps, << ServerCMName >>, ServerConfigMap)
                      ELSE operatorMaps
    /\ useEmbedded \in BOOLEAN
    \* run outside a pod, the operator is tried on a namespace it has not touched
    /\ useEmbedded => serverAvailable = 0 /\ configMaps = NoStore /\ tags = {FallbackNamespace}

\* what earlier passes leave of a KieApp of variant "a": its requested
\* resources owned by it, the routes with their hosts
DeployedObjects ==
    LET env == setEnvironmentProperties(EmptyKieApp, Environment("a"), NoStore, 1).env
        requested == getKubernetesResources(env, FallbackNamespace)
        val(r) == [r.val EXCEPT !.owners = {InstanceUID},
                                !.host = IF r.key.kind = KindRoute
                                         THEN "host-" \o r.key.name ELSE ""]
    IN  [k \in {requested[i].key : i \in 1..Len(requested)} |->
            val(CHOOSE r \in {requested[i] : i \in 1..Len(requested)} : r.key = k)]

DeployedKieApp ==
    KieApp(InstanceUID, 4, KieSpec(TRUE, TRUE, "a", FALSE),
           KieStatus(<< Condition(DeployedConditionType, ConditionTrue, 0, NoReason, "") >>,
                     {DCName, RouterDCName}, "https://host-r1"))

\* a namespace in which earlier passes have brought the KieApp to Deployed
DeployedNamespace ==
    /\ stored = Stored(TRUE, DeployedKieApp)
    /\ cache = stored
    /\ objects = DeployedObjects
    /\ tags = {FallbackNamespace}
    /\ serverAvailable = 1
    /\ configMaps = Put((LiveName :> GeneratedConfigMaps[1].cm), << ServerCMName >>,
                        ServerConfigMap)
    /\ useEmbedded = FALSE

Init ==
    /\ conditions = << >>
    /\ clock = 0
    /\ lastCall = NoCall
    /\ FreshNamespace \/ DeployedNamespace
    /\ ReconcileIdle
    /\ probe = NoProbe

NoDeltas == [kind \in Kinds |-> [Added |-> {}, Removed |-> {}, Updated |-> {}]]

\* the pass before its first statement
Begin ==
    [stored |-> stored, objects |-> objects, tags |-> tags, configMaps |-> configMaps,
     clock |-> clock, instance |-> EmptyKieApp, before |-> << >>,
     env |-> Environment("a"), deployedRoutes |-> NoStore, requested |-> << >>,
     deltas |-> NoDeltas, hasUpdates |-> FALSE,
     writes |-> << >>, events |-> {}, hit |-> {}, result |-> "running"]

\* the calls of apply that can fail: the first Create, Update or Delete of a kind
ApplyFault(op, kind) == "apply." \o op \o "." \o kind

FaultSites ==
    {"prelude.getDeployment", "prelude.getLive", "prelude.getBackup", "prelude.writeLive",
     "prelude.writeBackup", "fetch.get", "compile.update", "routes.get", "routes.create",
     "desired.probeFallback", "desired.probeOwn", "desired.createTag", "inventory.list",
     "applied.update", "applied.conflict", "checkcm.list", "checkcm.getDC",
     "checkcm.update", "cached.get", "persist.update", "persist.conflict"}
    \cup {ApplyFault(op, kind) : op \in {"add", "update", "remove"},
                                 kind \in {KindSecret, KindDC, KindRoute}}

\* the sets of at most n calls to fail
RECURSIVE FaultPlans(_)
FaultPlans(n) ==
    IF n = 0 THEN {{}}
    ELSE LET fewer == FaultPlans(n - 1)
         IN  fewer \cup {plan \cup {site} : plan \in fewer, site \in FaultSites}

\* the pass has made the calls at sites: those of them the plan fails are hit
Hit(s, plan, sites) == [s EXCEPT !.hit = @ \cup (sites \cap plan)]

HasCall(calls, name) == \E i \in 1..Len(calls) : calls[i].name = name

Returns(s, kind, event) == [s EXCEPT !.result = kind, !.events = @ \cup {event}]

\* the pass has met this on its way
Noted(s, event) == [s EXCEPT !.events = @ \cup {event}]

\* a plausible slip: the operator's config maps are not looked at
PreludeSkipped(s, plan) == s

\* lines 49-62: the operator's config maps, when it runs in a pod
Prelude(s, plan) ==
    IF useEmbedded THEN s
    ELSE IF "prelude.getDeployment" \in plan
    THEN Noted(Hit(s, plan, {"prelude.getDeployment"}), "operatorReadError")
    ELSE LET getErrs == (IF "prelude.getLive" \in plan THEN {LiveName} ELSE {})
                        \cup (IF "prelude.getBackup" \in plan THEN {BakName} ELSE {})
             writeErrs == (IF "prelude.writeLive" \in plan THEN {LiveName} ELSE {})
                          \cup (IF "prelude.writeBackup" \in plan THEN {BakName} ELSE {})
             c == CreateConfigMaps(s.configMaps, GeneratedConfigMaps, getErrs, writeErrs)
             live == s.configMaps
             differs == /\ LiveName \notin getErrs
                        /\ LiveName \in DOMAIN live
                        /\ \/ live[LiveName].data # GeneratedConfigMaps[1].cm.data
                           \/ live[LiveName].binary # GeneratedConfigMaps[1].cm.binary
             made == {"prelude.getLive"}
                     \cup (IF differs THEN {"prelude.getBackup"} ELSE {})
                     \cup (IF HasCall(c.calls, LiveName) THEN {"prelude.writeLive"} ELSE {})
                     \cup (IF HasCall(c.calls, BakName) THEN {"prelude.writeBackup"} ELSE {})
         IN  Noted(Hit([s EXCEPT !.configMaps = c.cms, !.writes = @ \o c.calls], plan, made),
                   "createdConfigMaps")

\* reconciler.setFailedStatus on the pass's instance
Failed(s, cr, reason, message, updateFails) ==
    LET f == setFailedStatus(s.stored, cr, s.clock, reason, message, updateFails)
    IN  [s EXCEPT !.stored = f.stored, !.instance = f.cr, !.clock = f.clock,
                  !.writes = @ \o f.calls]


\* a plausible slip: not-found is handled as any other error of the Get
FetchFailsNotFound(s, plan) ==
    IF s.result # "running" THEN s
    ELSE IF "fetch.get" \in plan
    THEN Returns(Failed(Hit(s, plan, {"fetch.get"}), EmptyKieApp, UnknownReason, "x", FALSE),
                 "error", "instanceReadError")
    ELSE IF ~s.stored.exists
    THEN Returns(Failed(s, EmptyKieApp, UnknownReason, "x", FALSE), "error", "instanceNotFound")
    ELSE [s EXCEPT !.instance = s.stored.app, !.before = s.stored.app.status.conds]

\* lines 64-77: fetch the KieApp
Fetch(s, plan) ==
    IF s.result # "running" THEN s
    ELSE IF "fetch.get" \in plan
    THEN Returns(Failed(Hit(s, plan, {"fetch.get"}), EmptyKieApp, UnknownReason, "x", FALSE),
                 "error", "instanceReadError")
    ELSE IF ~s.stored.exists THEN Returns(s, "done", "instanceNotFound")
    ELSE [s EXCEPT !.instance = s.stored.app, !.before = s.stored.app.status.conds]

\* a plausible slip: a rejected spec is recorded as any other error
CompileUnknownReason(s, plan) ==
    IF s.result # "running" THEN s
    ELSE LET g == GetEnvironment(s.instance)
         IN  IF g.err
             THEN Returns(Failed(Hit(s, plan, {"compile.update"}), g.cr,
                                 UnknownReason, "y", "compile.update" \in plan),
                          "error", "compileError")
             ELSE [s EXCEPT !.instance = g.cr, !.env = g.env]

\* lines 79-84: the requested environment
Compile(s, plan) ==
    IF s.result # "running" THEN s
    ELSE LET g == GetEnvironment(s.instance)
         IN  IF g.err
             THEN Returns(Failed(Hit(s, plan, {"compile.update"}), g.cr,
                                 ConfigurationErrorReason, "y", "compile.update" \in plan),
                          "error", "compileError")
             ELSE [s EXCEPT !.instance = g.cr, !.env = g.env]

\* loadRoutes: the requested routes the cluster holds, by name
loadRoutes(store, requestedRoutes) ==
    [n \in {requestedRoutes[i].key.name : i \in
              {j \in 1..Len(requestedRoutes) : requestedRoutes[j].key \in DOMAIN store}}
       |-> store[Key(KindRoute, n)]]

\* lines 86-104: the requested routes; the missing ones are created and the
\* pass asks to be run again in 200ms
Routes(s, plan) ==
    IF s.result # "running" THEN s
    ELSE IF "routes.get" \in plan
    THEN Returns(Hit(s, plan, {"routes.get"}), "error", "routeReadError")
    ELSE LET requestedRoutes == getRequestedRoutes(s.env)
             deployedRoutes == loadRoutes(s.objects, requestedRoutes)
             missingRoutes == getMissingRoutes(requestedRoutes, deployedRoutes)
             a == AddResources(s.objects, s.instance.uid, missingRoutes,
                               IF "routes.create" \in plan THEN 1 ELSE 0)
             t == [s EXCEPT !.deployedRoutes = deployedRoutes]
         IN  IF Cardinality(DOMAIN deployedRoutes) < Len(requestedRoutes)
             THEN LET u == Hit([t EXCEPT !.objects = a.objects, !.writes = @ \o a.calls],
                               plan, {"routes.create"})
                  IN  IF a.err THEN Returns(u, "error", "routesMissing")
                      ELSE IF a.done THEN Returns(u, "requeueAfter", "routesMissing")
                      ELSE u
             ELSE t

\* lines 106-113: hosts and keystore, then the resources to deploy, for which
\* the image stream tag of the DeploymentConfig's trigger is ensured
Desired(s, keystore, plan) ==
    IF s.result # "running" THEN s
    ELSE LET p == setEnvironmentProperties(s.instance, s.env, s.deployedRoutes, keystore)
             probeErrs == (IF "desired.probeFallback" \in plan THEN {FallbackNamespace} ELSE {})
                          \cup (IF "desired.probeOwn" \in plan THEN {InstanceNamespace} ELSE {})
             e == ensureImageStream(s.tags, FallbackNamespace, p.cr, probeErrs,
                                    "desired.createTag" \in plan)
             own == p.cr.spec.registry
                    \/ ~checkImageStreamTag(s.tags, FallbackNamespace, probeErrs)
             made == (IF p.cr.spec.registry THEN {} ELSE {"desired.probeFallback"})
                     \cup (IF own THEN {"desired.probeOwn"} ELSE {})
                     \cup (IF e.calls # << >> THEN {"desired.createTag"} ELSE {})
             n == IF made \cap plan \cap {"desired.probeFallback", "desired.probeOwn"} # {}
                  THEN Noted(s, "probeError") ELSE s
             t == IF e.err THEN Noted(n, "createTagError") ELSE n
         IN  Hit([t EXCEPT !.instance = p.cr, !.env = p.env, !.tags = e.tags,
                           !.writes = @ \o e.calls,
                           !.requested = getKubernetesResources(p.env, e.ns)], plan, made)

\* a plausible slip: the error of the inventory is returned as it is
InventoryKeepsStatus(s, plan) ==
    IF s.result # "running" THEN s
    ELSE IF "inventory.list" \in plan
    THEN Returns(Hit(s, plan, {"inventory.list"}), "error", "inventoryError")
    ELSE LET deployed == getDeployedResources(s.objects, s.instance.uid)
         IN  [s EXCEPT !.instance = setDeploymentStatus(s.instance, deployed[KindDC]),
                       !.deltas = Compare(deployed, ResourceMap(s.requested))]

\* lines 115-127: what is deployed, and how it differs from what is requested
Inventory(s, plan) ==
    IF s.result # "running" THEN s
    ELSE IF "inventory.list" \in plan
    THEN Returns(Failed(Hit(s, plan, {"inventory.list"}), s.instance, UnknownReason, "x",
                        FALSE),
                 "error", "inventoryError")
    ELSE LET deployed == getDeployedResources(s.objects, s.instance.uid)
         IN  [s EXCEPT !.instance = setDeploymentStatus(s.instance, deployed[KindDC]),
                       !.deltas = Compare(deployed, ResourceMap(s.requested))]

\* a plausible slip: the updates are issued before the creates
ApplyKindUpdatesFirst(s, kind, plan) ==
    LET delta == s.deltas[kind]
        uid == s.instance.uid
        failAt(op) == IF ApplyFault(op, kind) \in plan THEN 1 ELSE 0
        u == UpdateResources(s.objects, uid, SetToSeq(delta.Updated), failAt("update"))
        a == AddResources(u.objects, uid, SetToSeq(delta.Added), failAt("add"))
        r == RemoveResources(a.objects, SetToSeq(delta.Removed), failAt("remove"))
        made == (IF delta.Updated # {} THEN {ApplyFault("update", kind)} ELSE {})
                \cup (IF ~u.err /\ delta.Added # {}
                      THEN {ApplyFault("add", kind)} ELSE {})
                \cup (IF ~a.err /\ ~u.err /\ delta.Removed # {}
                      THEN {ApplyFault("remove", kind)} ELSE {})
        t == Hit(s, plan, made)
    IN  IF ~HasChanges(delta) THEN s
        ELSE IF u.err
        THEN Returns(Noted([t EXCEPT !.objects = u.objects, !.writes = @ \o u.calls],
                           "updateError"),
                     "error", "applyError")
        ELSE IF a.err
        THEN Returns(Noted([t EXCEPT !.objects = a.objects,
                                     !.writes = @ \o u.calls \o a.calls],
                           "addError"),
                     "error", "applyError")
        ELSE IF r.err
        THEN Returns(Noted([t EXCEPT !.objects = r.objects,
                                     !.writes = @ \o u.calls \o a.calls \o r.calls],
                           "removeError"),
                     "error", "applyError")
        ELSE [t EXCEPT !.objects = r.objects,
                       !.writes = @ \o u.calls \o a.calls \o r.calls,
                       !.hasUpdates = @ \/ a.done \/ u.done \/ r.done]

\* lines 129-147, one turn of the loop
ApplyKind(s, kind, plan) ==
    LET delta == s.deltas[kind]
        uid == s.instance.uid
        failAt(op) == IF ApplyFault(op, kind) \in plan THEN 1 ELSE 0
        a == AddResources(s.objects, uid, SetToSeq(delta.Added), failAt("add"))
        u == UpdateResources(a.objects, uid, SetToSeq(delta.Updated), failAt("update"))
        r == RemoveResources(u.objects, SetToSeq(delta.Removed), failAt("remove"))
        made == (IF delta.Added # {} THEN {ApplyFault("add", kind)} ELSE {})
                \cup (IF ~a.err /\ delta.Updated # {}
                      THEN {ApplyFault("update", kind)} ELSE {})
                \cup (IF ~a.err /\ ~u.err /\ delta.Removed # {}
                      THEN {ApplyFault("remove", kind)} ELSE {})
        t == Hit(s, plan, made)
    IN  IF ~HasChanges(delta) THEN s
        ELSE IF a.err
        THEN Returns(Noted([t EXCEPT !.objects = a.objects, !.writes = @ \o a.calls],
                           "addError"),
                     "error", "applyError")
        ELSE IF u.err
        THEN Returns(Noted([t EXCEPT !.objects = u.objects,
                                     !.writes = @ \o a.calls \o u.calls],
                           "updateError"),
                     "error", "applyError")
        ELSE IF r.err
        THEN Returns(Noted([t EXCEPT !.objects = r.objects,
                                     !.writes = @ \o a.calls \o u.calls \o r.calls],
                           "removeError"),
                     "error", "applyError")
        ELSE [t EXCEPT !.objects = r.objects,
                       !.writes = @ \o a.calls \o u.calls \o r.calls,
                       !.hasUpdates = @ \/ a.done \/ u.done \/ r.done]

\* the loop over deltas, in the order the map is ranged over
RECURSIVE Apply(_, _, _)
Apply(s, order, plan) ==
    IF s.result # "running" \/ order = << >> THEN s
    ELSE Apply(ApplyKind(s, Head(order), plan), Tail(order), plan)

\* the orders in which a range over the map can meet the kinds with changes
Orders(deltas) ==
    LET changed == {kind \in Kinds : HasChanges(deltas[kind])}
        n == Cardinality(changed)
    IN  {order \in [1..n -> changed] : \A i, j \in 1..n : order[i] = order[j] => i = j}

\* another writer has changed the KieApp's metadata since the pass read it
Touched(st) == Stored(st.exists, [st.app EXCEPT !.rv = @ + 1])

\* return reconciler.UpdateObj(instance): the error, or Result{Requeue: true}.
\* The cluster can fail the Update (stage.update), and it rejects it as a
\* conflict when another writer got in first (stage.conflict).
Updated(s, cr, stage, plan, event) ==
    LET conflict == (stage \o ".conflict") \in plan
        server == IF conflict THEN Touched(s.stored) ELSE s.stored
        u == UpdateObj(server, cr, ~conflict /\ (stage \o ".update") \in plan)
        sites == IF conflict THEN {stage \o ".conflict"} ELSE {stage \o ".update"}
        c == IF conflict THEN Noted(s, "conflict") ELSE s
        t == IF u.err THEN Noted(c, "writeError") ELSE c
    IN  Returns(Hit([t EXCEPT !.stored = u.stored, !.instance = cr, !.writes = @ \o u.calls],
                    plan, sites),
                IF u.err THEN "error" ELSE "requeue", event)

\* lines 148-150
Applied(s, plan) ==
    IF s.result # "running" THEN s
    ELSE LET p == SetProvisioning([conds |-> s.instance.status.conds, clock |-> s.clock])
             cr == [s.instance EXCEPT !.status.conds = p.conds]
         IN  IF s.hasUpdates /\ p.ret
             THEN Updated(Noted([s EXCEPT !.clock = p.clock], "hasUpdates"), cr, "applied",
                          plan, "appliedUpdates")
             ELSE IF s.hasUpdates THEN Noted(s, "hasUpdates")
             ELSE s

\* lines 152-153: the config maps of servers that no longer run
CheckCM(s, plan) ==
    IF s.result # "running" THEN s
    ELSE IF "checkcm.list" \in plan
    THEN Noted(Hit(s, plan, {"checkcm.list"}), "checkedConfigMaps")
    ELSE LET c == checkKieServerConfigMap(s.configMaps, s.env,
                                          IF "checkcm.getDC" \in plan THEN 0
                                          ELSE serverAvailable,
                                          FALSE, "checkcm.update" \in plan)
             made == (IF Orphans(s.configMaps, s.env, 0) # {} THEN {"checkcm.getDC"} ELSE {})
                     \cup (IF c.calls # << >> THEN {"checkcm.update"} ELSE {})
         IN  Noted(Hit([s EXCEPT !.configMaps = c.cms, !.writes = @ \o c.calls], plan, made),
                   "checkedConfigMaps")

\* a plausible slip: the KieApp is updated whatever the two resourceVersions say
PersistAnyVersion(s, plan) ==
    IF s.result # "running" THEN s
    ELSE IF "cached.get" \in plan
    THEN Returns(Failed(Hit(s, plan, {"cached.get"}), s.instance, UnknownReason, "x", FALSE),
                 "error", "cachedReadError")
    ELSE IF ~cache.exists THEN Returns(s, "done", "cachedNotFound")
    ELSE LET cached == cache.app
             sameVersion == s.instance.rv = cached.rv
             \* the pass with what the two reads say of each other
             t == IF sameVersion THEN s ELSE Noted(s, "stale")
             write == TRUE
             st == [conds |-> s.instance.status.conds, clock |-> s.clock]
             p == SetProvisioning(st)
             d == SetDeployed(st)
             with(m) == [s.instance EXCEPT !.status.conds = m.conds]
             \* the pass has compared the two resourceVersions and found them equal
             same(m) == Noted([t EXCEPT !.clock = m.clock], "sameVersion")
         IN  IF hasSpecChanges(s.instance, cached)
             THEN IF p.ret /\ write
                  THEN Updated(same(p), with(p), "persist", plan, "specChanges")
                  ELSE Returns([t EXCEPT !.clock = p.clock, !.instance = with(p)],
                               "requeue", "specChanges")
             ELSE IF hasStatusChanges(s.instance, cached)
             THEN IF write
                  THEN Updated(same(st), s.instance, "persist", plan, "statusChanges")
                  ELSE Returns(t, "requeue", "statusChanges")
             ELSE IF d.ret
             THEN IF write
                  THEN Updated(same(d), with(d), "persist", plan, "setDeployed")
                  ELSE Returns([t EXCEPT !.clock = d.clock, !.instance = with(d)],
                               "requeue", "setDeployed")
             ELSE Returns(t, "done", "nothingToDo")

\* lines 155-190: fetch the cached KieApp and update the KieApp if needed
Persist(s, plan) ==
    IF s.result # "running" THEN s
    ELSE IF "cached.get" \in plan
    THEN Returns(Failed(Hit(s, plan, {"cached.get"}), s.instance, UnknownReason, "x", FALSE),
                 "error", "cachedReadError")
    ELSE IF ~cache.exists THEN Returns(s, "done", "cachedNotFound")
    ELSE LET cached == cache.app
             sameVersion == s.instance.rv = cached.rv
             \* the pass with what the two reads say of each other
             t == IF sameVersion THEN s ELSE Noted(s, "stale")
             st == [conds |-> s.instance.status.conds, clock |-> s.clock]
             p == SetProvisioning(st)
             d == SetDeployed(st)
             with(m) == [s.instance EXCEPT !.status.conds = m.conds]
             \* the pass has compared the two resourceVersions and found them equal
             same(m) == Noted([t EXCEPT !.clock = m.clock], "sameVersion")
         IN  IF hasSpecChanges(s.instance, cached)
             THEN IF p.ret /\ sameVersion
                  THEN Updated(same(p), with(p), "persist", plan, "specChanges")
                  ELSE Returns([t EXCEPT !.clock = p.clock, !.instance = with(p)],
                               "requeue", "specChanges")
             ELSE IF hasStatusChanges(s.instance, cached)
             THEN IF sameVersion
                  THEN Updated(same(st), s.instance, "persist", plan, "statusChanges")
                  ELSE Returns(t, "requeue", "statusChanges")
             ELSE IF d.ret
             THEN IF sameVersion
                  THEN Updated(same(d), with(d), "persist", plan, "setDeployed")
                  ELSE Returns([t EXCEPT !.clock = d.clock, !.instance = with(d)],
                               "requeue", "setDeployed")
             ELSE Returns(t, "done", "nothingToDo")

\* what GenerateKeystore can return to a pass that gets as far as calling it
Keystores(s) == IF s.result = "running" THEN KeystoreBytes ELSE {CHOOSE k \in KeystoreBytes : TRUE}

\* Reconcile, lines 48-191: one pass in which the cluster fails the calls of
\* plan.  Each statement's outcome is bound before the next one reads it.
Pass(plan) ==
       \E p \in {Prelude(Begin, plan)} :
       \E f \in {Fetch(p, plan)} :
       \E c \in {Compile(f, plan)} :
       \E r \in {Routes(c, plan)} :
       \E keystore \in Keystores(r) :
       \E d \in {Desired(r, keystore, plan)} :
       \E i \in {Inventory(d, plan)} :
       \E order \in Orders(i.deltas) :
       \E a \in {Apply(i, order, plan)} :
       \E u \in {Applied(a, plan)} :
       \E m \in {CheckCM(u, plan)} :
       \E s \in {Persist(m, plan)} :
         /\ s.hit = plan
         /\ stored' = s.stored
         /\ objects' = s.objects
         /\ tags' = s.tags
         /\ configMaps' = s.configMaps
         /\ clock' = s.clock
         /\ instance' = s.instance
         /\ before' = s.before
         /\ writes' = s.writes
         /\ events' = s.events
         /\ result' = s.result
         /\ hist' = [prevResult |-> result, quiet |-> result # "none",
                     clean |-> plan = {}, prevClean |-> hist.clean]

\* a reconcile request is served while the model's budgets last
Reconcile ==
    /\ passes < MaxPasses
    /\ passes' = passes + 1
    /\ \E plan \in FaultPlans(MaxFaults - faults) :
         /\ Pass(plan)
         /\ faults' = faults + Cardinality(plan)
    /\ UNCHANGED << conditions, lastCall, cache, serverAvailable, useEmbedded, probe, externals >>

(***************************************************************************)
(* The rest of the cluster: the informer, the router, the user, the KIE    *)
(* server.  What the last pass did is then no longer the last thing that   *)
(* happened.                                                               *)
(***************************************************************************)
Forget ==
    /\ instance' = EmptyKieApp
    /\ before' = << >>
    /\ writes' = << >>
    /\ events' = {}
    /\ result' = "none"
    /\ hist' = NoHist

External ==
    /\ externals < MaxExternal
    /\ externals' = externals + 1
    /\ Forget

\* the informer cache catches up with the API server
CacheSync ==
    /\ cache # stored
    /\ cache' = stored
    /\ Forget
    /\ UNCHANGED << statusVars, stored, objects, tags, configMaps, serverAvailable,
                    useEmbedded, probe, budgetVars >>

\* the router gives a route its host
AssignHost ==
    /\ \E k \in DOMAIN objects :
         /\ k.kind = KindRoute
         /\ objects[k].host = ""
         /\ objects' = [objects EXCEPT ![k].host = "host-" \o k.name]
    /\ Forget
    /\ UNCHANGED << statusVars, stored, cache, tags, configMaps, serverAvailable,
                    useEmbedded, probe, budgetVars >>

\* the user creates the KieApp
UserCreates ==
    /\ External
    /\ ~stored.exists
    /\ \E s \in UserSpecs : stored' = Stored(TRUE, KieApp(InstanceUID, 1, s, EmptyStatus))
    /\ UNCHANGED << statusVars, cache, objects, tags, configMaps, serverAvailable,
                    useEmbedded, probe, passes, faults >>

\* the user edits the KieApp's spec
UserUpdatesSpec ==
    /\ External
    /\ stored.exists
    /\ \E s \in UserSpecs \ {stored.app.spec} :
         stored' = Stored(TRUE, [stored.app EXCEPT !.spec = s, !.rv = stored.app.rv + 1])
    /\ UNCHANGED << statusVars, cache, objects, tags, configMaps, serverAvailable,
                    useEmbedded, probe, passes, faults >>

\* someone edits the KieApp's metadata (a label, an annotation)
UserAnnotates ==
    /\ External
    /\ stored.exists
    /\ stored' = Touched(stored)
    /\ UNCHANGED << statusVars, cache, objects, tags, configMaps, serverAvailable,
                    useEmbedded, probe, passes, faults >>

\* the user deletes the KieApp
UserDeletes ==
    /\ External
    /\ stored.exists
    /\ stored' = NotStored
    /\ UNCHANGED << statusVars, cache, objects, tags, configMaps, serverAvailable,
                    useEmbedded, probe, passes, faults >>

\* the user edits a config map's text or binary payload
UserEditsConfigMap ==
    /\ External
    /\ \E n \in DOMAIN configMaps, field \in {"data", "binary"} :
         configMaps' = [configMaps EXCEPT ![n] =
                          IF field = "data" THEN [@ EXCEPT !.data = 1 - @]
                          ELSE [@ EXCEPT !.binary = 1 - @]]
    /\ UNCHANGED << statusVars, stored, cache, objects, tags, serverAvailable,
                    useEmbedded, probe, passes, faults >>

\* a KIE server starts and records itself in its config map
KieServerStarts ==
    /\ External
    /\ serverAvailable = 0
    /\ serverAvailable' = 1
    /\ configMaps' = Put(configMaps, << ServerCMName >>, ServerConfigMap)
    /\ UNCHANGED << statusVars, stored, cache, objects, tags, useEmbedded, probe, passes, faults >>

\* the KIE server's pods are gone
KieServerStops ==
    /\ External
    /\ serverAvailable = 1
    /\ serverAvailable' = 0
    /\ UNCHANGED << statusVars, stored, cache, objects, tags, configMaps, useEmbedded, probe,
                    passes, faults >>

Next ==
    \/ Reconcile
    \/ CacheSync
    \/ AssignHost
    \/ UserCreates
    \/ UserUpdatesSpec
    \/ UserAnnotates
    \/ UserDeletes
    \/ UserEditsConfigMap
    \/ KieServerStarts
    \/ KieServerStops

Spec == Init /\ [][Next]_vars

(***************************************************************************)
(* The controller left to itself: a KieApp whose spec the compiler         *)
(* accepts, no one who edits it, a cluster that fails no call.  The work   *)
(* queue serves the request again until a pass returns done; the informer  *)
(* and the router do their part.                                           *)
(***************************************************************************)
QuietInit ==
    /\ Init
    /\ stored.exists
    /\ stored.app.spec.valid

\* the request is in the work queue: it was never served, or the last pass
\* asked for it again, or failed
Queued == result \in {"none", "requeue", "requeueAfter", "error"}

\* the work queue serves the request; no call fails.  passes tells a pass
\* from the one before it.
Requeue ==
    /\ Queued
    /\ clock + 2 <= MaxClock
    /\ passes' = 1 - passes
    /\ Pass({})
    /\ UNCHANGED << conditions, lastCall, cache, serverAvailable, useEmbedded, probe,
                    faults, externals >>

QuietNext == Requeue \/ CacheSync \/ AssignHost

\* WF_vars(Requeue), written out: a pass always returns and always changes
\* passes, so that ENABLED << Requeue >>_vars is Requeue's guard
RequeueFair ==
    \/ []<>(~(Queued /\ clock + 2 <= MaxClock))
    \/ []<><< Requeue >>_vars

QuietSpec ==
    QuietInit /\ [][QuietNext]_vars /\ RequeueFair /\ WF_vars(CacheSync) /\ WF_vars(AssignHost)

(***************************************************************************)
(* The comparator and the inventory on their own.  A call is drawn: the    *)
(* function and its arguments; the one step applies the function.          *)
(***************************************************************************)
\* another KieApp of the namespace
OtherUID == "uid-b"

ProbeNames == {"x", "y", "z"}

\* Secrets that differ in their metadata, in their payload's bytes, in its keys
SecretValues ==
    {Obj({}, c, d, {}, "") : c \in {1, 2}, d \in {NoData, ("k" :> 1), ("k" :> 2)}}

\* the Secrets handed to the Secret comparator: payloads of no key, of one
\* of two keys, of both
ProbeSecrets ==
    SecretValues
    \cup {Obj({}, c, d, {}, "") : c \in {1, 2},
                                  d \in {("j" :> 1), ("j" :> 1) @@ ("k" :> 1),
                                         ("j" :> 2) @@ ("k" :> 1)}}

ProbeValues(kind) ==
    IF kind = KindSecret
    THEN {v \in SecretValues : v.content = 1 \/ v.data = ("k" :> 1)}
    ELSE {Obj({}, c, NoData, {}, "") : c \in {1, 2}}

\* a map of resources that holds resources of one kind, one for a name at most
ProbeMaps ==
    UNION {UNION {{[k \in Kinds |->
                      IF k = kind THEN {Res(Key(kind, n), val[n]) : n \in names} ELSE {}] :
                   val \in [names -> ProbeValues(kind)]} :
                  names \in SUBSET ProbeNames} :
           kind \in {KindSecret, KindDC}}

\* the console's DeploymentConfig, the Secret it mounts and a route, each
\* absent or owned by this KieApp, by the other one or by both
ProbeKeys == {Key(KindDC, DCName), Key(KindSecret, KeystoreSecretName), Key(KindRoute, "r1")}

ProbeStores ==
    UNION {{[k \in keys |->
               Obj(owners[k], 1, IF k.kind = KindSecret THEN ("k" :> 1) ELSE NoData,
                   IF k.kind = KindDC THEN {KeystoreSecretName} ELSE {}, "")] :
            owners \in [keys -> {{InstanceUID}, {OtherUID}, {InstanceUID, OtherUID}}]} :
           keys \in SUBSET ProbeKeys}

\* the namespaces an image stream tag is looked for in
ProbeNamespaces == {InstanceNamespace, FallbackNamespace}

\* a KieApp with or without Spec.ImageRegistry
WithRegistry(registry) == [EmptyKieApp EXCEPT !.spec.registry = registry]

\* the operator's config map and its backup as a run can find them: absent
\* or with any text and binary payload, the backup with or without an owner
OperatorOwner == [kind |-> "Deployment", name |-> "operator"]

ProbeConfigMaps ==
    LET lives == {NoStore} \cup {(LiveName :> CM(d, b, {OperatorOwner}, "")) : d, b \in {0, 1}}
        backups == {NoStore}
                   \cup {(BakName :> CM(d, b, owners, "")) :
                           d, b \in {0, 1}, owners \in {{}, {OperatorOwner}}}
    IN  {live @@ backup : live \in lives, backup \in backups}

\* environments of a console, up to two servers and a smart router, each
\* left out or not, with a keystore Secret supplied for it or not
ProbeComponents == {Component(omit, name) : omit \in BOOLEAN, name \in {"", "supplied"}}

ProbeEnvironments ==
    {[console |-> c, servers |-> s, smartRouter |-> r] :
        c \in ProbeComponents, r \in ProbeComponents,
        s \in UNION {[1..n -> ProbeComponents] : n \in 0..2}}

Probe(fn, args) == [fn |-> fn, args |-> args, called |-> FALSE, out |-> << >>]

PureInit ==
    /\ conditions = << >>
    /\ clock = 0
    /\ lastCall = NoCall
    /\ stored = NotStored
    /\ cache = NotStored
    /\ objects = NoStore
    /\ tags = {}
    /\ configMaps = NoStore
    /\ serverAvailable = 0
    /\ useEmbedded = TRUE
    /\ ReconcileIdle
    /\ \/ \E deployed, requested \in ProbeMaps :
             probe = Probe("Compare", << deployed, requested >>)
       \/ \E deployed, requested \in ProbeSecrets :
             probe = Probe("EqualResources", << deployed, requested >>)
       \/ \E store \in ProbeStores, uid \in {InstanceUID, OtherUID} :
             probe = Probe("getDeployedResources", << store, uid >>)
       \/ \E env \in ProbeEnvironments : probe = Probe("setEnvironmentProperties", << env >>)
       \/ \E cms \in ProbeConfigMaps : probe = Probe("CreateConfigMaps twice", << cms >>)
       \/ \E present, probeErrs \in SUBSET ProbeNamespaces, namespace \in ProbeNamespaces,
             registry, createErr, again \in BOOLEAN :
             probe = Probe(IF again THEN "ensureImageStream twice" ELSE "ensureImageStream",
                           << present, namespace, WithRegistry(registry), probeErrs,
                              createErr >>)

Called(fn, out) ==
    /\ probe.fn = fn
    /\ ~probe.called
    /\ probe' = [probe EXCEPT !.called = TRUE, !.out = out]
    /\ UNCHANGED << statusVars, reconcileVars >>

\* deltas := comparator.Compare(deployed, requested)
CallCompare == Called("Compare", Compare(probe.args[1], probe.args[2]))

\* the Secret comparator that ignoreSecretDataValues installs
CallEqualResources ==
    Called("EqualResources", EqualResources(KindSecret, probe.args[1], probe.args[2]))

\* deployed, err := reconciler.getDeployedResources(instance)
CallGetDeployedResources ==
    Called("getDeployedResources", getDeployedResources(probe.args[1], probe.args[2]))

\* ensureImageStream(name, namespace, cr) in a cluster that holds the tag in
\* args[1] and fails the Gets of args[4] and, with args[5], the Create
CallEnsureImageStream ==
    Called("ensureImageStream",
           ensureImageStream(probe.args[1], probe.args[2], probe.args[3], probe.args[4],
                             probe.args[5]))

\* the call, and the call repeated for the next resource with the same image
\* in a cluster that fails nothing
CallEnsureImageStreamTwice ==
    LET first == ensureImageStream(probe.args[1], probe.args[2], probe.args[3],
                                   probe.args[4], probe.args[5])
    IN  Called("ensureImageStream twice",
               << first, ensureImageStream(first.tags, probe.args[2], probe.args[3],
                                           {}, FALSE) >>)

\* reconciler.CreateConfigMaps(myDep) in two passes with nothing in between,
\* in a cluster that fails nothing
CallCreateConfigMapsTwice ==
    LET first == CreateConfigMaps(probe.args[1], GeneratedConfigMaps, {}, {})
    IN  Called("CreateConfigMaps twice",
               << first, CreateConfigMaps(first.cms, GeneratedConfigMaps, {}, {}) >>)

\* env = reconciler.setEnvironmentProperties(instance, env, deployedRoutes),
\* then the objects getKubernetesResources takes its resources from
CallSetEnvironmentProperties ==
    LET env == setEnvironmentKeystores(probe.args[1])
    IN  Called("setEnvironmentProperties",
               [env |-> env, objects |-> filterOmittedObjects(getCustomObjects(env))])

PureNext ==
    \/ CallSetEnvironmentProperties
    \/ CallCreateConfigMapsTwice
    \/ CallEnsureImageStream
    \/ CallEnsureImageStreamTwice
    \/ CallCompare
    \/ CallEqualResources
    \/ CallGetDeployedResources

PureSpec == PureInit /\ [][PureNext]_vars

(***************************************************************************)
(* Properties of the status mutators, checked under StatusSpec.            *)
(***************************************************************************)
HasType(conds, condType) == getConditionIdx(conds, condType) # NoIdx

HasCondition(conds, condType, status) ==
    \E i \in 1..Len(conds) : conds[i].type = condType /\ conds[i].status = status

\* C2: SetProvisioning returns false and leaves the list as it was when a
\* Provisioning condition is present; otherwise it returns true, the list gains
\* one Provisioning=True condition and its Deployed condition has status False.
C2_SetProvisioningContract ==
    lastCall.op = "SetProvisioning" =>
        IF HasType(lastCall.before, ProvisioningConditionType)
        THEN /\ lastCall.ret = FALSE
             /\ conditions = lastCall.before
        ELSE /\ lastCall.ret = TRUE
             /\ CountType(conditions, ProvisioningConditionType) = 1
             /\ HasCondition(conditions, ProvisioningConditionType, ConditionTrue)
             /\ Len(conditions) > Len(lastCall.before)
             /\ HasCondition(conditions, DeployedConditionType, ConditionFalse)
             /\ ~HasCondition(conditions, DeployedConditionType, ConditionTrue)

\* SetProvisioning has just turned a Deployed=True list into a provisioning one
C2_Witness ==
    /\ lastCall.op = "SetProvisioning"
    /\ lastCall.ret = TRUE
    /\ HasCondition(lastCall.before, DeployedConditionType, ConditionTrue)

\* C3: whenever SetDeployed returns true the list is exactly one entry, of type
\* Deployed and status True.
C3_DeployedCompacts ==
    (lastCall.op = "SetDeployed" /\ lastCall.ret = TRUE) =>
        /\ Len(conditions) = 1
        /\ conditions[1].type = DeployedConditionType
        /\ conditions[1].status = ConditionTrue

\* SetDeployed has just returned true on a list of three conditions
C3_Witness ==
    /\ lastCall.op = "SetDeployed"
    /\ lastCall.ret = TRUE
    /\ Len(lastCall.before) = 3

\* C4 as stated: from the empty list SetProvisioning returns true and leaves
\* [Provisioning=True, Deployed=False], Provisioning first.
C4_ProvisioningFirst ==
    (lastCall.op = "SetProvisioning" /\ lastCall.before = << >>) =>
        /\ lastCall.ret = TRUE
        /\ Len(conditions) = 2
        /\ conditions[1].type = ProvisioningConditionType
        /\ conditions[1].status = ConditionTrue
        /\ conditions[2].type = DeployedConditionType
        /\ conditions[2].status = ConditionFalse

\* C4 amended: from the empty list SetProvisioning returns true and leaves
\* [Deployed=False, Provisioning=True], the Deployed entry first.
C4_DeployedFirst ==
    (lastCall.op = "SetProvisioning" /\ lastCall.before = << >>) =>
        /\ lastCall.ret = TRUE
        /\ Len(conditions) = 2
        /\ conditions[1].type = DeployedConditionType
        /\ conditions[1].status = ConditionFalse
        /\ conditions[2].type = ProvisioningConditionType
        /\ conditions[2].status = ConditionTrue

\* SetProvisioning has just been called on the empty list
C4_Witness ==
    /\ lastCall.op = "SetProvisioning"
    /\ lastCall.before = << >>
    /\ Len(conditions) = 2

C6_SetDeployedIdempotent ==
    (lastCall.op = "SetDeployed"
       /\ HasCondition(lastCall.before, DeployedConditionType, ConditionTrue)) =>
        /\ lastCall.ret = FALSE
        /\ conditions = lastCall.before

\* SetDeployed has just been called on a list that held Deployed=True
C6_Witness ==
    /\ lastCall.op = "SetDeployed"
    /\ HasCondition(lastCall.before, DeployedConditionType, ConditionTrue)
    /\ lastCall.ret = FALSE
    /\ Len(conditions) = 1

\* C7: a Failed condition leaves the list only in a SetDeployed call that
\* returns true; SetProvisioning and SetFailed keep one in the list.
C7_FailedKept ==
    [][(HasType(conditions, FailedConditionType)
          /\ ~HasType(conditions', FailedConditionType))
         => (lastCall'.op = "SetDeployed" /\ lastCall'.ret = TRUE)]_statusVars

\* SetProvisioning has just changed a list that holds a Failed condition
C7_Witness ==
    /\ lastCall.op = "SetProvisioning"
    /\ lastCall.ret = TRUE
    /\ HasType(lastCall.before, FailedConditionType)
    /\ HasType(conditions, FailedConditionType)


(***************************************************************************)
(* Properties of the Reconcile pass.                                       *)
(***************************************************************************)
\* the last pass followed, with nothing happening in between, a pass that
\* returned done, and the cluster failed no call of either
SecondPass ==
    /\ hist.prevResult = "done"
    /\ hist.quiet
    /\ hist.clean
    /\ hist.prevClean

\* C1: a pass that follows a pass that returned done, with no change to the
\* cluster in between, issues no create, update or delete call
C1_SecondPassWritesNothing == SecondPass => writes = << >>

\* the calls of the last pass that write the KieApp
InstanceWrites == {i \in 1..Len(writes) : writes[i].kind = "KieApp"}

\* the Failed conditions of a list, in order
FailedOf(conds) == SelectSeq(conds, LAMBDA c : c.type = FailedConditionType)

\* the pass set, in the KieApp it held, a Failed condition for this reason
SetsFailed(reason) ==
    /\ FailedOf(instance.status.conds) # FailedOf(before)
    /\ \E i \in 1..Len(instance.status.conds) :
         /\ instance.status.conds[i].type = FailedConditionType
         /\ instance.status.conds[i].status = ConditionTrue
         /\ instance.status.conds[i].reason = reason

\* C8: a pass whose read of the KieApp, the first or the cached one, finds
\* nothing returns done, and neither sets a Failed condition nor writes the KieApp
C8_NotFoundIsDone ==
    events \cap {"instanceNotFound", "cachedNotFound"} # {} =>
        /\ result = "done"
        /\ FailedOf(instance.status.conds) = FailedOf(before)
        /\ InstanceWrites = {}

C8_Witness ==
    /\ "cachedNotFound" \in events
    /\ result = "done"
    /\ stored.exists
    /\ instance.uid = InstanceUID

\* C9: a pass that meets an error other than not-found in a read or a list
\* (the KieApp, a requested route, the inventory, the cached KieApp) sets the
\* Failed condition and returns the error
C9_ReadErrorSetsFailed ==
    events \cap {"instanceReadError", "routeReadError", "inventoryError", "cachedReadError"}
        # {} =>
        /\ result = "error"
        /\ SetsFailed(UnknownReason)

\* C10, as stated: a pass whose inventory fails returns the error with the
\* conditions as it read them and without a write of the KieApp
C10_InventoryErrorKeepsStatus ==
    "inventoryError" \in events =>
        /\ result = "error"
        /\ instance.status.conds = before
        /\ InstanceWrites = {}

\* C10: a pass whose inventory fails returns the error after it has set the
\* Failed condition, reason Unknown, with Deployed False, and has issued one
\* update of the KieApp
C10_InventoryErrorSetsFailed ==
    "inventoryError" \in events =>
        /\ result = "error"
        /\ SetsFailed(UnknownReason)
        /\ HasCondition(instance.status.conds, DeployedConditionType, ConditionFalse)
        /\ Cardinality(InstanceWrites) = 1
        /\ \A i \in InstanceWrites : writes[i].op = "update" /\ i = Len(writes)

C10_Witness ==
    /\ "inventoryError" \in events
    /\ result = "error"
    /\ stored.exists
    /\ stored.app.status.conds = instance.status.conds
    /\ before # instance.status.conds

\* the calls of the last pass that write a resource of a reconciled kind
ResourceWrites == {i \in 1..Len(writes) : writes[i].kind \in Kinds}

\* C11: a pass whose spec GetEnvironment rejects sets the Failed condition
\* with the reason ConfigurationError, which is not the reason of the read
\* errors, returns the error and writes no route or other resource
C11_CompileErrorIsConfigurationError ==
    "compileError" \in events =>
        /\ result = "error"
        /\ SetsFailed(ConfigurationErrorReason)
        /\ ~SetsFailed(UnknownReason)
        /\ ConfigurationErrorReason # UnknownReason
        /\ ResourceWrites = {}

C11_Witness ==
    /\ "compileError" \in events
    /\ result = "error"
    /\ stored.exists
    /\ stored.app.status.conds = instance.status.conds
    /\ HasCondition(stored.app.status.conds, FailedConditionType, ConditionTrue)

\* the routes the KieApp of the last pass asks for, by name
RequestedRouteNames ==
    LET routes == getRequestedRoutes(Environment(instance.spec.variant))
    IN  {routes[i].key.name : i \in 1..Len(routes)}

RouteCreates == {i \in 1..Len(writes) : writes[i].kind = KindRoute /\ writes[i].op = "create"}

\* the last pass created routes, each once, and wrote no other resource nor
\* the KieApp, whose conditions it left as it read them
OnlyCreatesRoutes ==
    /\ RouteCreates # {}
    /\ ResourceWrites = RouteCreates
    /\ \A i, j \in RouteCreates : writes[i].name = writes[j].name => i = j
    /\ \A i \in RouteCreates : writes[i].name \in RequestedRouteNames
    /\ InstanceWrites = {}
    /\ instance.status.conds = before

LaterSteps ==
    {"checkedConfigMaps", "cachedReadError", "cachedNotFound", "specChanges",
     "statusChanges", "setDeployed", "nothingToDo"}

\* C13: a pass whose apply loop added, updated or removed something sets
\* Provisioning, writes the KieApp and returns requeue without going on to
\* the config map check and the final comparison, whether or not the KieApp
\* had a Provisioning condition (no call of the cluster failing)
C13_UpdatesEndPass ==
    "hasUpdates" \in events /\ hist.clean =>
        /\ result = "requeue"
        /\ HasCondition(instance.status.conds, ProvisioningConditionType, ConditionTrue)
        /\ Cardinality(InstanceWrites) = 1
        /\ events \cap LaterSteps = {}


\* C14 as stated: a pass that finds the two resourceVersions different
\* writes no KieApp and returns requeue
C14_StaleAlwaysRequeues ==
    "stale" \in events => InstanceWrites = {} /\ result = "requeue"

\* C14: a pass that reaches the final comparison and finds the
\* resourceVersion it read different from the cached one writes no KieApp;
\* it returns requeue when it found spec or status changes or had Deployed
\* to set, and done when it found nothing to do
C14_StaleNeverWrites ==
    "stale" \in events =>
        /\ InstanceWrites = {}
        /\ \/ result = "requeue"
              /\ events \cap {"specChanges", "statusChanges", "setDeployed"} # {}
           \/ result = "done" /\ "nothingToDo" \in events

C14_Witness == "stale" \in events /\ "nothingToDo" \in events /\ result = "done"


\* C15: a pass that issued an update of the KieApp (the early one after
\* applied changes and the one of a Failed condition included) had compared
\* the resourceVersion it read with the cached one and found them equal
C15_WritesAfterComparison ==
    InstanceWrites # {} => "sameVersion" \in events

\* C16: a pass whose update of the KieApp the cluster rejected as a conflict
\* returns requeue, and the KieApp the other writer stored is left as it is
C16_ConflictRequeues ==
    "conflict" \in events =>
        /\ result = "requeue"
        /\ stored.exists
        /\ stored.app.rv = instance.rv + 1
        /\ stored.app.status.conds = before


\* the place of a write in the order of one turn of the apply loop
Rank(op) == CASE op = "create" -> 1 [] op = "update" -> 2 [] op = "delete" -> 3

OpsOf(kind) == {writes[i].op : i \in {j \in ResourceWrites : writes[j].kind = kind}}

\* the last call of the pass is a write with this op of a reconciled kind, and
\* no later step of that kind was attempted
EndsWith(op) ==
    /\ result = "error"
    /\ Len(writes) \in ResourceWrites
    /\ writes[Len(writes)].op = op
    /\ \A later \in OpsOf(writes[Len(writes)].kind) : Rank(later) <= Rank(op)

\* C17: among the writes of one pass to the resources of one kind, the
\* creates come before the updates and the updates before the deletes; a
\* failing create, update or delete is the last call of the pass, with no
\* later step for its kind
C17_AddedUpdatedRemoved ==
    /\ \A i, j \in ResourceWrites :
          i < j /\ writes[i].kind = writes[j].kind =>
              Rank(writes[i].op) <= Rank(writes[j].op)
    /\ "addError" \in events => EndsWith("create")
    /\ "updateError" \in events => EndsWith("update")
    /\ "removeError" \in events => EndsWith("delete")

C17_Witness ==
    /\ OpsOf(KindDC) = {"create", "update", "delete"}
    /\ result = "requeue"


KeysOf(set) == {r.key : r \in set}

\* the resource of the set with this key
Keyed(set, key) == CHOOSE r \in set : r.key = key

\* the keys both sets hold whose resources differ under the kind's equality
Differing(kind, deployed, requested) ==
    {k \in KeysOf(deployed) \cap KeysOf(requested) :
        ~EqualResources(kind, Keyed(deployed, k).val, Keyed(requested, k).val)}

\* C18: Compare(D, R) gives, for every kind, Added = the requested resources
\* whose key D does not hold, Removed = the deployed ones whose key R does
\* not hold, Updated = the requested ones whose key both hold and whose
\* content differs under the kind's equality; no key is in two of the three
C18_ComparePartitions ==
    probe.fn = "Compare" /\ probe.called =>
        \A kind \in Kinds :
            LET D == probe.args[1][kind]
                R == probe.args[2][kind]
                delta == probe.out[kind]
            IN  /\ delta.Added = {r \in R : r.key \notin KeysOf(D)}
                /\ delta.Removed = {d \in D : d.key \notin KeysOf(R)}
                /\ delta.Updated = {r \in R : r.key \in Differing(kind, D, R)}
                /\ KeysOf(delta.Added) \cap KeysOf(delta.Updated) = {}
                /\ KeysOf(delta.Added) \cap KeysOf(delta.Removed) = {}
                /\ KeysOf(delta.Updated) \cap KeysOf(delta.Removed) = {}

C18_Witness ==
    /\ probe.fn = "Compare"
    /\ probe.called
    /\ \E kind \in {KindSecret, KindDC} :
         /\ probe.out[kind].Added # {}
         /\ probe.out[kind].Updated # {}
         /\ probe.out[kind].Removed # {}


\* the two Secrets of a call of the Secret comparator
SameMetadata(a, b) == a.content = b.content /\ a.vols = b.vols

\* C19: under the Secret comparator two Secrets with the same metadata whose
\* payloads differ in the bytes under their keys are equal, and two Secrets
\* with different metadata and the same payload are not; Compare puts no
\* Secret in Updated whose deployed namesake differs from it in these bytes only
C19_SecretPayloadMasked ==
    /\ probe.fn = "EqualResources" /\ probe.called =>
          LET a == probe.args[1]
              b == probe.args[2]
          IN  /\ SameMetadata(a, b) /\ DOMAIN a.data = DOMAIN b.data => probe.out = TRUE
              /\ ~SameMetadata(a, b) /\ a.data = b.data => probe.out = FALSE
    /\ probe.fn = "Compare" /\ probe.called =>
          \A r \in probe.out[KindSecret].Updated :
              LET d == Keyed(probe.args[1][KindSecret], r.key)
              IN  ~SameMetadata(d.val, r.val) \/ DOMAIN d.val.data # DOMAIN r.val.data

C19_Witness ==
    /\ probe.fn = "EqualResources"
    /\ probe.called
    /\ SameMetadata(probe.args[1], probe.args[2])
    /\ DOMAIN probe.args[1].data = DOMAIN probe.args[2].data
    /\ probe.args[1].data # probe.args[2].data
    /\ probe.out = TRUE

\* C20: every resource of the inventory built for a KieApp, of whatever kind,
\* carries the KieApp's UID among its owner references
C20_InventoryOwnedByInstance ==
    probe.fn = "getDeployedResources" /\ probe.called =>
        \A kind \in Kinds : \A r \in probe.out[kind] : probe.args[2] \in r.val.owners


\* the probe is a finished call of ensureImageStream
Ensured == probe.fn = "ensureImageStream" /\ probe.called

\* the Get of the call found the tag in the namespace
FoundIn(namespace) == checkImageStreamTag(probe.args[1], namespace, probe.args[4])

\* C21: with a custom registry ensureImageStream looks for the tag in the
\* instance's namespace only, otherwise in the namespace handed in and then
\* in the instance's; it returns the first namespace in which it found the
\* tag, and creates a tag exactly when it found it in none of those
C21_ResolutionOrder ==
    Ensured =>
        LET namespace == probe.args[2]
            checked == IF probe.args[3].spec.registry THEN << InstanceNamespace >>
                       ELSE << namespace, InstanceNamespace >>
            hits == {i \in 1..Len(checked) : FoundIn(checked[i])}
            first == CHOOSE i \in hits : \A j \in hits : i <= j
        IN  IF hits = {}
            THEN /\ probe.out.probes = checked
                 /\ Len(probe.out.calls) = 1
                 /\ probe.out.calls[1].op = "create"
            ELSE /\ probe.out.probes = SubSeq(checked, 1, first)
                 /\ probe.out.ns = checked[first]
                 /\ probe.out.calls = << >>
                 /\ probe.out.tags = probe.args[1]
                 /\ ~probe.out.err

C21_Witness ==
    /\ Ensured
    /\ ~probe.args[3].spec.registry
    /\ probe.args[2] = FallbackNamespace
    /\ probe.out.probes = << FallbackNamespace, InstanceNamespace >>
    /\ probe.out.ns = InstanceNamespace
    /\ probe.out.calls = << >>

\* C22: a call that finds no tag in the namespaces it checks creates one tag,
\* in the instance's namespace, and returns that namespace; the next call
\* for the same image then returns the same namespace, without an error and
\* without a write
C22_EnsureIdempotent ==
    /\ probe.fn = "ensureImageStream twice"
    /\ probe.called
    /\ probe.args[1] \cap {probe.args[2], InstanceNamespace} = {}
    /\ ~probe.args[5]
    =>  LET first == probe.out[1]
            second == probe.out[2]
        IN  /\ Len(first.calls) = 1
            /\ first.tags = probe.args[1] \cup {InstanceNamespace}
            /\ first.ns = InstanceNamespace
            /\ ~first.err
            /\ second.ns = first.ns
            /\ ~second.err
            /\ second.calls = << >>
            /\ second.tags = first.tags

C22_Witness ==
    /\ probe.fn = "ensureImageStream twice"
    /\ probe.called
    /\ probe.args[1] = {}
    /\ ~probe.args[3].spec.registry
    /\ probe.args[2] = FallbackNamespace
    /\ Len(probe.out[1].calls) = 1
    /\ probe.out[2].calls = << >>
    /\ probe.out[2].ns = InstanceNamespace

\* C23: when ensureImageStream gets to create the tag, a Create answered
\* with AlreadyExists counts as done (no error, the instance's namespace is
\* returned), and any other error of the Create is returned to the caller
C23_CreateErrors ==
    Ensured /\ probe.out.calls # << >> =>
        /\ probe.out.err = probe.args[5]
        /\ ~probe.args[5] => probe.out.ns = InstanceNamespace
        /\ ~probe.args[5] /\ InstanceNamespace \in probe.args[1] =>
              probe.out.tags = probe.args[1]

\* the Create was answered with AlreadyExists
C23_Witness ==
    /\ Ensured
    /\ probe.out.calls # << >>
    /\ InstanceNamespace \in probe.args[1]
    /\ ~probe.args[5]
    /\ ~probe.out.err
    /\ probe.out.ns = InstanceNamespace


\* the calls that can fail a pass once its image stream tag is resolved
LaterErrors == {"inventoryError", "applyError", "cachedReadError", "writeError"}

\* C29: a pass in which the Get of an image stream tag failed goes on as if
\* the tag were not there: unless a later call fails it sets no Failed
\* condition and returns no error, and unless the Create fails the tag is
\* then in the instance's namespace, found there or created
C29_ProbeErrorReadsAsAbsent ==
    "probeError" \in events =>
        /\ events \cap LaterErrors = {} =>
              /\ FailedOf(instance.status.conds) = FailedOf(before)
              /\ result # "error"
        /\ "createTagError" \notin events => InstanceNamespace \in tags

\* the Get failed for a namespace that holds the tag, and the tag was created
C29_Witness ==
    /\ "probeError" \in events
    /\ FallbackNamespace \in tags
    /\ \E i \in 1..Len(writes) : writes[i].kind = "ImageStreamTag"
    /\ result = "requeue"


\* the probe is two finished runs of CreateConfigMaps
RanTwice == probe.fn = "CreateConfigMaps twice" /\ probe.called

\* the live config map of the run's cluster differs from the generated one
LiveDiffers(cms) ==
    /\ LiveName \in DOMAIN cms
    /\ \/ cms[LiveName].data # GeneratedConfigMaps[1].cm.data
       \/ cms[LiveName].binary # GeneratedConfigMaps[1].cm.binary

\* C24: the second of two runs of CreateConfigMaps with nothing in between
\* writes nothing, whatever the live config map and its backup were before
\* the first
C24_SecondRunWritesNothing ==
    RanTwice => probe.out[2].calls = << >>

\* C25: after a run of CreateConfigMaps that found the live config map
\* different from the generated one, the backup exists, has no owner
\* reference and holds the text and the binary payload of the live one
C25_BackupEqualsLive ==
    RanTwice /\ LiveDiffers(probe.args[1]) =>
        LET after == probe.out[1].cms
        IN  /\ BakName \in DOMAIN after
            /\ after[BakName].owners = {}
            /\ after[BakName].data = after[LiveName].data
            /\ after[BakName].binary = after[LiveName].binary


\* the component, as handed to setEnvironmentProperties and as it left it
KeystoreDone(was, is, kept) ==
    /\ ~was.omit /\ was.keystoreSecret = "" => Len(is.secrets) = Len(was.secrets) + 1
    /\ was.omit => /\ is.secrets = was.secrets
                   /\ \A i \in 1..Len(kept) : kept[i] # is

\* C26: the console, every server and the smart router have one generated
\* keystore Secret added when they are not left out and no keystore Secret
\* is supplied for them; those left out get none and are not among the
\* objects the requested resources are taken from
C26_KeystorePerComponent ==
    probe.fn = "setEnvironmentProperties" /\ probe.called =>
        LET was == probe.args[1]
            is == probe.out.env
        IN  /\ KeystoreDone(was.console, is.console, probe.out.objects)
            /\ KeystoreDone(was.smartRouter, is.smartRouter, probe.out.objects)
            /\ \A i \in 1..Len(was.servers) :
                  KeystoreDone(was.servers[i], is.servers[i], probe.out.objects)


\* C30: whatever mutators were called on the empty list, the list holds at
\* most one condition of each type, hence at most three
C30_OneConditionPerType ==
    /\ \A i, j \in 1..Len(conditions) : conditions[i].type = conditions[j].type => i = j
    /\ \A i \in 1..Len(conditions) : conditions[i].type \in ConditionTypes
    /\ Len(conditions) <= 3

C30_Witness ==
    /\ {conditions[i].type : i \in 1..Len(conditions)} = ConditionTypes
    /\ lastCall.op = "SetFailed"
    /\ lastCall.run > 1


\* the writes of the last pass to the operator's config map or its backup
ArtifactWrites ==
    {i \in 1..Len(writes) : writes[i].kind = "ConfigMap" /\ writes[i].name \in {LiveName, BakName}}

\* the pass ended at the fetch of the KieApp or at the requeue for routes
EndedEarly == events \cap {"instanceNotFound", "instanceReadError", "routesMissing"} # {}

ExactlyDeployed(app) ==
    /\ Len(app.status.conds) = 1
    /\ app.status.conds[1].type = DeployedConditionType
    /\ app.status.conds[1].status = ConditionTrue

\* C27: a KieApp that exists, whose spec the compiler accepts and that no one
\* edits, in a cluster that fails no call: serving its request again each
\* time a pass asks for it leads to a pass that returns done, and the
\* KieApp's condition list is then exactly [Deployed=True]
C27_ReachesDeployed ==
    /\ <>(result = "done")
    /\ [](result = "done" => stored.exists /\ ExactlyDeployed(stored.app))

\* a pass returns done on a KieApp that passes of this run have deployed
C27_Witness ==
    /\ result = "done"
    /\ clock > 0
    /\ stored.exists /\ ExactlyDeployed(stored.app)
    /\ stored.app.status.conds[1].time = clock


\* C31: whatever mutators were called on the empty list, a Deployed condition
\* of status True is never in the list with a Provisioning or a Failed
\* condition: it is then the only entry
C31_DeployedTrueAlone ==
    HasCondition(conditions, DeployedConditionType, ConditionTrue) =>
        /\ Len(conditions) = 1
        /\ ~HasType(conditions, ProvisioningConditionType)
        /\ ~HasType(conditions, FailedConditionType)

\* SetDeployed was called on a list holding Deployed=False, Provisioning and
\* Failed, and the list holds Deployed=True
C31_Witness ==
    /\ lastCall.op = "SetDeployed"
    /\ Len(lastCall.before) = 3
    /\ HasType(lastCall.before, ProvisioningConditionType)
    /\ HasType(lastCall.before, FailedConditionType)
    /\ HasCondition(conditions, DeployedConditionType, ConditionTrue)


\* the requested Secrets of a call of Compare that have a deployed namesake
\* with the same metadata
Namesakes ==
    {r \in probe.args[2][KindSecret] :
        /\ r.key \in KeysOf(probe.args[1][KindSecret])
        /\ SameMetadata(Keyed(probe.args[1][KindSecret], r.key).val, r.val)}

\* C32: the Secret comparator blanks the values of the payload and keeps its
\* keys: two Secrets with the same metadata are equal exactly when their
\* payloads have the same keys, and Compare reports as Updated exactly those
\* of them whose keys differ from their deployed namesake's
C32_KeysNotMasked ==
    /\ probe.fn = "EqualResources" /\ probe.called =>
          LET a == probe.args[1]
              b == probe.args[2]
          IN  SameMetadata(a, b) => (probe.out = (DOMAIN a.data = DOMAIN b.data))
    /\ probe.fn = "Compare" /\ probe.called =>
          \A r \in Namesakes :
              LET d == Keyed(probe.args[1][KindSecret], r.key)
              IN  r \in probe.out[KindSecret].Updated <=> DOMAIN d.val.data # DOMAIN r.val.data

\* two Secrets with the same metadata and one key in common, one of them with
\* a second key, were found unequal
C32_Witness ==
    /\ probe.fn = "EqualResources"
    /\ probe.called
    /\ SameMetadata(probe.args[1], probe.args[2])
    /\ DOMAIN probe.args[1].data = {"k"}
    /\ DOMAIN probe.args[2].data = {"j", "k"}
    /\ probe.args[1].data["k"] = probe.args[2].data["k"]
    /\ probe.out = FALSE


\* a run of CreateConfigMaps from the config maps was to the config maps is,
\* with these calls: no config map is gone, the live one that was there is
\* as it was, and the calls create the live one when it was not there, create
\* the backup or update it, and nothing else
Framed(was, is, calls) ==
    /\ DOMAIN was \subseteq DOMAIN is
    /\ LiveName \in DOMAIN was => is[LiveName] = was[LiveName]
    /\ \A n \in DOMAIN is \ DOMAIN was : \E i \in 1..Len(calls) : calls[i] = CMCall("create", n)
    /\ \A i \in 1..Len(calls) :
         \/ calls[i] = CMCall("create", LiveName) /\ LiveName \notin DOMAIN was
         \/ calls[i] = CMCall("create", BakName) /\ BakName \notin DOMAIN was
         \/ calls[i] = CMCall("update", BakName) /\ BakName \in DOMAIN was

\* C33: CreateConfigMaps does not update or delete a live config map that is
\* there, whether or not it differs from the generated one: its text, binary
\* payload and owners are the same after the run, and the run writes only to
\* create a missing config map or to create or overwrite the backup
C33_LiveUntouched ==
    RanTwice =>
        /\ Framed(probe.args[1], probe.out[1].cms, probe.out[1].calls)
        /\ Framed(probe.out[1].cms, probe.out[2].cms, probe.out[2].calls)

\* the live config map differed from the generated one in its text, the
\* backup was there with other text, and the run has overwritten the backup
C33_Witness ==
    /\ RanTwice
    /\ LiveDiffers(probe.args[1])
    /\ BakName \in DOMAIN probe.args[1]
    /\ probe.args[1][BakName].data # probe.args[1][LiveName].data
    /\ probe.out[1].calls = << CMCall("update", BakName) >>
    /\ probe.out[1].cms[LiveName] = probe.args[1][LiveName]


\* C34: every Secret of the inventory built for a KieApp is a Secret the
\* namespace held when it was fetched; a Secret that an owned
\* DeploymentConfig mounts and the namespace does not hold adds no entry
C34_SecretsExisted ==
    probe.fn = "getDeployedResources" /\ probe.called =>
        \A r \in probe.out[KindSecret] :
            /\ r.key \in DOMAIN probe.args[1]
            /\ probe.args[1][r.key] = r.val

====
